---- MODULE Spec2Model ----
(***************************************************************************)
(* Model of the validation-and-derivation pipeline of                      *)
(* engineering_simulations_pipeline_autorun:                               *)
(*   src/src/data_validators.py      validate_navier_stokes_data,          *)
(*                                   validate_initial_data                 *)
(*   src/src/fluid_calculators.py    calculate_fluid_properties_at_timestep*)
(*   src/src/fluid_data_processor.py process_fluid_data                    *)
(* and of the scripts around it:                                           *)
(*   src/src/resolution_sweep.py        the main of the resolution sweep   *)
(*   src/src/advance_resolution_run.py  advance_resolution                 *)
(*   src/src/download_dropbox_files.py  delete_files_except_step_and_flow  *)
(*                                                                         *)
(* Numbers are tagged records: a Python int, or a float64 that is NaN,     *)
(* +inf, -inf or (n/d) * EPS^e with n/d a reduced fraction and EPS the     *)
(* literal 1e-9 of fluid_calculators.py.  Arithmetic on them is exact and  *)
(* follows IEEE-754 on the three special values.                           *)
(***************************************************************************)
EXTENDS Integers, Sequences, FiniteSets, TLC

\* ------------------------------------------------------------------ bounds
MaxT == 2
MaxNodes == 2
MaxDefects == 2

\* ------------------------------------------------------------ number model
\* Every number is a record [t, n, d, e]: t = "int" a Python int n; t = "float"
\* the finite float64 (n/d) * EPS^e; t = "nan", "+inf", "-inf" the special
\* float64 values; t = "str" a JSON value that is not a number.
NaN == [t |-> "nan", n |-> 0, d |-> 1, e |-> 0]
PInf == [t |-> "+inf", n |-> 0, d |-> 1, e |-> 0]
NInf == [t |-> "-inf", n |-> 0, d |-> 1, e |-> 0]
NotANumber == [t |-> "str", n |-> 0, d |-> 1, e |-> 0]
None == [none |-> TRUE]

Abs(i) == IF i < 0 THEN -i ELSE i

RECURSIVE GCD(_, _)
GCD(a, b) == IF b = 0 THEN a ELSE GCD(b, a % b)

\* the float (n/d) * EPS^e, reduced, with the sign on n and a single zero
Norm(n, d, e) ==
    IF n = 0 THEN [t |-> "float", n |-> 0, d |-> 1, e |-> 0]
    ELSE LET g == GCD(Abs(n), Abs(d))
             s == IF d < 0 THEN -1 ELSE 1
         IN [t |-> "float", n |-> s * (n \div g), d |-> s * (d \div g), e |-> e]

I(i) == [t |-> "int", n |-> i, d |-> 1, e |-> 0]
F(i) == Norm(i, 1, 0)
Q(n, d) == Norm(n, d, 0)

\* isinstance(x, int), isinstance(x, (int, float))
IsInt(x) == x.t = "int"
IsNumber(x) == x.t # "str"

\* float(x) of a Python number
ToFloat(x) == IF IsInt(x) THEN F(x.n) ELSE x

IsNaN(x) == x.t = "nan"
IsInf(x) == x.t \in {"+inf", "-inf"}
IsFinite(x) == x.t \in {"int", "float"}

\* sign of a number that is not NaN
Sgn(x) ==
    IF x.t = "+inf" THEN 1
    ELSE IF x.t = "-inf" THEN -1
    ELSE IF x.n > 0 THEN 1 ELSE IF x.n < 0 THEN -1 ELSE 0

\* a < b on finite floats; every mantissa lies strictly between EPS and 1/EPS,
\* so of two positive floats the one with the higher power of EPS is smaller
FinLess(a, b) ==
    IF Sgn(a) # Sgn(b) THEN Sgn(a) < Sgn(b)
    ELSE IF Sgn(a) = 0 THEN FALSE
    ELSE IF a.e # b.e
         THEN (IF Sgn(a) > 0 THEN a.e > b.e ELSE a.e < b.e)
         ELSE a.n * b.d < b.n * a.d

\* IEEE comparison a < b: any comparison with NaN is False
FLess(x, y) ==
    LET a == ToFloat(x)
        b == ToFloat(y)
    IN IF IsNaN(a) \/ IsNaN(b) THEN FALSE
       ELSE IF a = b THEN FALSE
       ELSE IF a = NInf \/ b = PInf THEN TRUE
       ELSE IF a = PInf \/ b = NInf THEN FALSE
       ELSE FinLess(a, b)

FGreater(a, b) == FLess(b, a)
FLessEq(a, b) == ~IsNaN(a) /\ ~IsNaN(b) /\ ~FLess(b, a)

SignedInf(s) == IF s < 0 THEN NInf ELSE PInf

FMul(x, y) ==
    LET a == ToFloat(x)
        b == ToFloat(y)
    IN IF IsNaN(a) \/ IsNaN(b) THEN NaN
       ELSE IF IsInf(a) \/ IsInf(b)
            THEN (IF Sgn(a) = 0 \/ Sgn(b) = 0 THEN NaN
                  ELSE SignedInf(Sgn(a) * Sgn(b)))
            ELSE Norm(a.n * b.n, a.d * b.d, a.e + b.e)

\* numpy true division (divide and invalid warnings ignored)
FDiv(x, y) ==
    LET a == ToFloat(x)
        b == ToFloat(y)
    IN IF IsNaN(a) \/ IsNaN(b) THEN NaN
       ELSE IF IsInf(a)
            THEN (IF IsInf(b) THEN NaN
                  ELSE SignedInf(Sgn(a) * (IF Sgn(b) < 0 THEN -1 ELSE 1)))
       ELSE IF IsInf(b) THEN F(0)
       ELSE IF Sgn(b) = 0
            THEN (IF Sgn(a) = 0 THEN NaN ELSE SignedInf(Sgn(a)))
            ELSE Norm(a.n * b.d, a.d * b.n, a.e - b.e)

\* a + b; finite non-zero operands must carry the same power of EPS
FAdd(x, y) ==
    LET a == ToFloat(x)
        b == ToFloat(y)
    IN IF IsNaN(a) \/ IsNaN(b) THEN NaN
       ELSE IF IsInf(a) THEN (IF IsInf(b) /\ a # b THEN NaN ELSE a)
       ELSE IF IsInf(b) THEN b
       ELSE IF Sgn(a) = 0 THEN b
       ELSE IF Sgn(b) = 0 THEN a
       ELSE CASE a.e = b.e -> Norm(a.n * b.d + b.n * a.d, a.d * b.d, a.e)

RECURSIVE PowInt(_, _)
PowInt(x, k) == IF k = 1 THEN ToFloat(x) ELSE FMul(x, PowInt(x, k - 1))

IsSquare(i) == \E r \in 0..i : r * r = i
ISqrt(i) == CHOOSE r \in 0..i : r * r = i

\* the powers x ** y the model computes exactly: y a positive whole number,
\* or y = 1/2 on a perfect square
PowExact(x, y) ==
    /\ IsFinite(y) /\ y.e = 0 /\ y.n > 0
    /\ \/ y.d = 1
       \/ /\ ToFloat(y) = Q(1, 2)
          /\ IsFinite(x) /\ x.n >= 0 /\ x.e % 2 = 0
          /\ IsSquare(x.n) /\ IsSquare(x.d)

FPow(x, y) ==
    CASE y.d = 1 -> PowInt(x, y.n)
      [] ToFloat(y) = Q(1, 2) /\ PowExact(x, y)
            -> Norm(ISqrt(x.n), ISqrt(x.d), x.e \div 2)

\* np.maximum: NaN propagates
FMaximum(x, y) ==
    LET a == ToFloat(x)
        b == ToFloat(y)
    IN IF IsNaN(a) \/ IsNaN(b) THEN NaN
       ELSE IF FLess(a, b) THEN b ELSE a

\* the cast of a finite float to int64, truncating toward zero
Trunc(x) ==
    IF x.e # 0 THEN 0
    ELSE IF x.n >= 0 THEN x.n \div x.d ELSE -((-x.n) \div x.d)

\* Python's == between two numbers (1 == 1.0 is True, nan == nan is False)
NumEq(a, b) == ~IsNaN(a) /\ ToFloat(a) = ToFloat(b)

\* Python's a * b: int * int is an int, anything else a float
PyMul(a, b) == IF IsInt(a) /\ IsInt(b) THEN I(a.n * b.n) ELSE FMul(a, b)

\* ------------------------------------------------------------ JSON documents
\* A JSON object is a record whose DOMAIN is the set of keys it holds; a JSON
\* array is a sequence.  A time step of a history is [list, v]: list = FALSE
\* stands for a value that is not a list.
List(s) == [list |-> TRUE, v |-> s]
NotAList == [list |-> FALSE, v |-> <<>>]

Has(obj, key) == key \in DOMAIN obj
Drop(obj, key) == [k \in DOMAIN obj \ {key} |-> obj[k]]

\* ------------------------------------------------- validate_navier_stokes_data
required_mesh_keys == <<"nodes_coords", "grid_shape", "dx", "dy", "dz">>

\* the first required key that mesh_info lacks, "" when it has them all
RECURSIVE FirstMissingKey(_, _)
FirstMissingKey(mesh_info, i) ==
    IF i > Len(required_mesh_keys) THEN ""
    ELSE IF ~Has(mesh_info, required_mesh_keys[i]) THEN required_mesh_keys[i]
    ELSE FirstMissingKey(mesh_info, i + 1)

\* all(d > 0 for d in grid_shape)
AllPositive(grid_shape) ==
    \A i \in 1..Len(grid_shape) : FGreater(grid_shape[i], F(0))

PositiveNumber(x) == IsNumber(x) /\ FGreater(x, F(0))

FirstStepBad_Never(history) == FALSE

FirstStepBad_ListOnly(history) ==
    Len(history) > 0 /\ ~history[1].list

\* first time step "empty or malformed"
FirstStepBad(history) ==
    Len(history) > 0 /\ (~history[1].list \/ Len(history[1].v) = 0)

PresenceError_AllowEmpty(doc) ==
    IF ~Has(doc, "time_points") THEN "time_points missing"
    ELSE IF ~Has(doc, "mesh_info") THEN "mesh_info missing"
    ELSE IF FirstMissingKey(doc.mesh_info, 1) # ""
         THEN FirstMissingKey(doc.mesh_info, 1) \o " missing"
    ELSE IF ~Has(doc, "velocity_history") THEN "velocity_history missing"
    ELSE IF ~Has(doc, "pressure_history") THEN "pressure_history missing"
    ELSE "ok"

\* the checks that the keys are there, "ok" when they all are
PresenceError(doc) ==
    IF ~Has(doc, "time_points") THEN "time_points missing"
    ELSE IF Len(doc.time_points) = 0 THEN "time_points empty"
    ELSE IF ~Has(doc, "mesh_info") THEN "mesh_info missing"
    ELSE IF FirstMissingKey(doc.mesh_info, 1) # ""
         THEN FirstMissingKey(doc.mesh_info, 1) \o " missing"
    ELSE IF ~Has(doc, "velocity_history") THEN "velocity_history missing"
    ELSE IF ~Has(doc, "pressure_history") THEN "pressure_history missing"
    ELSE "ok"

LengthsDiffer(doc) ==
    ~(/\ Len(doc.velocity_history) = Len(doc.time_points)
      /\ Len(doc.pressure_history) = Len(doc.time_points))

GridShapeInvalid(grid_shape) == ~(Len(grid_shape) = 3 /\ AllPositive(grid_shape))

VoxelSizesInvalid(mesh_info) ==
    ~(/\ PositiveNumber(mesh_info.dx)
      /\ PositiveNumber(mesh_info.dy)
      /\ PositiveNumber(mesh_info.dz))

\* expected_nodes = num_x * num_y * num_z
ExpectedNodes(grid_shape) == PyMul(PyMul(grid_shape[3], grid_shape[2]), grid_shape[1])

NodesMismatch_AtLeast(mesh_info) ==
    FLess(I(Len(mesh_info.nodes_coords)), ExpectedNodes(mesh_info.grid_shape))

\* nodes_coords.shape[0] != expected_nodes
NodesMismatch(mesh_info) ==
    ~NumEq(I(Len(mesh_info.nodes_coords)), ExpectedNodes(mesh_info.grid_shape))

\* the checks of the values, made on a document that has every key
ValueError_SpecOrder(doc) ==
    IF GridShapeInvalid(doc.mesh_info.grid_shape) THEN "invalid grid_shape"
    ELSE IF VoxelSizesInvalid(doc.mesh_info) THEN "invalid voxel sizes"
    ELSE IF LengthsDiffer(doc) THEN "inconsistent lengths"
    ELSE IF FirstStepBad(doc.velocity_history) THEN "velocity_history first empty"
    ELSE IF FirstStepBad(doc.pressure_history) THEN "pressure_history first empty"
    ELSE IF NodesMismatch(doc.mesh_info) THEN "nodes mismatch"
    ELSE IF Len(doc.mesh_info.nodes_coords[1]) # 3 THEN "nodes_coords columns"
    ELSE "ok"

ValueError(doc) ==
    IF LengthsDiffer(doc) THEN "inconsistent lengths"
    ELSE IF FirstStepBad(doc.velocity_history) THEN "velocity_history first empty"
    ELSE IF FirstStepBad(doc.pressure_history) THEN "pressure_history first empty"
    ELSE IF GridShapeInvalid(doc.mesh_info.grid_shape) THEN "invalid grid_shape"
    ELSE IF VoxelSizesInvalid(doc.mesh_info) THEN "invalid voxel sizes"
    ELSE IF NodesMismatch(doc.mesh_info) THEN "nodes mismatch"
    ELSE IF Len(doc.mesh_info.nodes_coords[1]) # 3 THEN "nodes_coords columns"
    ELSE "ok"

\* the message validate_navier_stokes_data prints and returns None on, "ok"
\* when it reaches its return statement
NavierStokesError(doc) ==
    IF PresenceError(doc) # "ok" THEN PresenceError(doc) ELSE ValueError(doc)

validate_navier_stokes_data(doc) ==
    IF NavierStokesError(doc) # "ok" THEN None
    ELSE [time_points |-> doc.time_points,
          nodes_coords |-> doc.mesh_info.nodes_coords,
          grid_shape |-> doc.mesh_info.grid_shape,
          dx |-> doc.mesh_info.dx,
          dy |-> doc.mesh_info.dy,
          dz |-> doc.mesh_info.dz,
          velocity_history |-> doc.velocity_history,
          pressure_history |-> doc.pressure_history,
          num_x |-> doc.mesh_info.grid_shape[3],
          num_y |-> doc.mesh_info.grid_shape[2],
          num_z |-> doc.mesh_info.grid_shape[1]]

\* ------------------------------------------------------- validate_initial_data
Lower_Identity(str) == str

\* str.lower() on the model names the inputs use
Lower(str) ==
    CASE str \in {"ideal_gas", "IDEAL_GAS", "Ideal_Gas"} -> "ideal_gas"
      [] str \in {"incompressible", "Incompressible"} -> "incompressible"
      [] str = "compressible_liquid" -> "compressible_liquid"
      [] str = "" -> ""

\* fluid_properties.get('thermodynamics', {})
Thermodynamics(fluid_properties) ==
    IF Has(fluid_properties, "thermodynamics")
    THEN fluid_properties.thermodynamics
    ELSE [x \in {} |-> x]

\* thermodynamics.get('model', '').lower()
ThermoModelOf(fluid_properties) ==
    LET thermodynamics == Thermodynamics(fluid_properties)
    IN Lower(IF Has(thermodynamics, "model") THEN thermodynamics.model ELSE "")

RECURSIVE FSum(_)
FSum(s) == IF Len(s) = 0 THEN F(0) ELSE FAdd(s[1], FSum(Tail(s)))

\* np.mean of a non-empty array
Mean(s) == FDiv(FSum(s), F(Len(s)))

InitialC_NoPower(avg_initial_pressure, initial_density, gamma) ==
    FDiv(avg_initial_pressure, initial_density)

\* initial_C = avg_initial_pressure / (initial_density ** gamma)
InitialC(avg_initial_pressure, initial_density, gamma) ==
    FDiv(avg_initial_pressure, FPow(initial_density, gamma))

\* the message validate_initial_data prints and returns None on, "ok" when it
\* reaches its return statement
InitialDataError(initial_data, pressure_history) ==
    IF ~Has(initial_data, "fluid_properties") THEN "fluid_properties missing"
    ELSE LET fluid_properties == initial_data.fluid_properties
             thermodynamics == Thermodynamics(fluid_properties)
         IN
    IF ~Has(fluid_properties, "density") THEN "density missing"
    ELSE IF ~IsNumber(fluid_properties.density) \/ FLessEq(fluid_properties.density, F(0))
         THEN "invalid initial density"
    ELSE IF ThermoModelOf(fluid_properties) = "ideal_gas"
         THEN IF ~Has(thermodynamics, "specific_gas_constant_J_per_kgK")
              THEN "specific_gas_constant_J_per_kgK missing"
              ELSE IF ~Has(thermodynamics, "adiabatic_index_gamma")
              THEN "adiabatic_index_gamma missing"
              ELSE IF ~(/\ PositiveNumber(thermodynamics.specific_gas_constant_J_per_kgK)
                        /\ PositiveNumber(thermodynamics.adiabatic_index_gamma))
              THEN "invalid R or gamma"
              ELSE IF Len(pressure_history) = 0 \/ Len(pressure_history[1].v) = 0
              THEN "pressure history empty"
              ELSE IF FLessEq(Mean(pressure_history[1].v), F(0))
              THEN "average initial pressure not positive"
              ELSE "ok"
    ELSE IF ThermoModelOf(fluid_properties) = "incompressible" THEN "ok"
    ELSE "unsupported model " \o ThermoModelOf(fluid_properties)

validate_initial_data(initial_data, pressure_history) ==
    IF InitialDataError(initial_data, pressure_history) # "ok" THEN None
    ELSE LET fluid_properties == initial_data.fluid_properties
             thermodynamics == Thermodynamics(fluid_properties)
             ideal == ThermoModelOf(fluid_properties) = "ideal_gas"
         IN [initial_density |-> fluid_properties.density,
             R_specific_gas |->
                 IF ideal THEN thermodynamics.specific_gas_constant_J_per_kgK ELSE None,
             gamma |-> IF ideal THEN thermodynamics.adiabatic_index_gamma ELSE None,
             initial_C |->
                 IF ideal
                 THEN InitialC(Mean(pressure_history[1].v), fluid_properties.density,
                               thermodynamics.adiabatic_index_gamma)
                 ELSE None,
             thermo_model |-> ThermoModelOf(fluid_properties)]

\* ------------------------------------ calculate_fluid_properties_at_timestep
\* the literal 1e-9: the pressure clamp and the density threshold epsilon
EPS == [t |-> "float", n |-> 1, d |-> 1, e |-> 1]

\* np.array(list of numbers): int64 when every element is a Python int,
\* float64 otherwise
NpArray(list) ==
    IF Len(list) > 0 /\ \A i \in 1..Len(list) : IsInt(list[i])
    THEN [dtype |-> "int64", data |-> list]
    ELSE [dtype |-> "float64", data |-> [i \in 1..Len(list) |-> ToFloat(list[i])]]

\* np.array(rows of one width): the components in C order; its length is .size
Ravel(rows) ==
    LET width == IF Len(rows) = 0 THEN 0 ELSE Len(rows[1])
    IN [i \in 1..(Len(rows) * width) |->
           rows[((i - 1) \div width) + 1][((i - 1) % width) + 1]]

\* the last axis of reshape(num_z, num_y, num_x, 3): the components by threes
Triples(flat) ==
    [k \in 1..(Len(flat) \div 3) |-> <<flat[3 * k - 2], flat[3 * k - 1], flat[3 * k]>>]

\* flat.reshape(nz, ny, nx, 3) succeeds: whole-number dimensions and a
\* matching element count
VelocityReshapeOk(size, num_z, num_y, num_x) ==
    /\ IsInt(num_z) /\ IsInt(num_y) /\ IsInt(num_x)
    /\ size = num_z.n * num_y.n * num_x.n * 3

\* flat.reshape(nz, ny, nx) succeeds: whole-number dimensions and a matching
\* element count
ReshapeOk(count, num_z, num_y, num_x) ==
    /\ IsInt(num_z) /\ IsInt(num_y) /\ IsInt(num_x)
    /\ count = num_z.n * num_y.n * num_x.n

\* C-order reshape of a flat array to (nz, ny, nx)
Reshape3(flat, nz, ny, nx) ==
    [z \in 0..(nz - 1) |-> [y \in 0..(ny - 1) |-> [x \in 0..(nx - 1) |->
        flat[(z * ny + y) * nx + x + 1]]]]

Flatten3_Short(grid, nz, ny, nx) ==
    [i \in 1..(nz * ny) |->
        grid[(i - 1) \div (ny * nx)][((i - 1) \div nx) % ny][(i - 1) % nx]]

\* grid.flatten(): the nz*ny*nx entries in C order
Flatten3(grid, nz, ny, nx) ==
    [i \in 1..(nz * ny * nx) |->
        grid[(i - 1) \div (ny * nx)][((i - 1) \div nx) % ny][(i - 1) % nx]]

\* current_velocities_grid.reshape(-1, 3).tolist(): one row of 3 per node
VelocityData_Components(grid, nz, ny, nx) ==
    [i \in 1..(3 * nz * ny * nx) |-> Flatten3(grid, nz, ny, nx)[((i - 1) \div 3) + 1][((i - 1) % 3) + 1]]

VelocityData(grid, nz, ny, nx) == Flatten3(grid, nz, ny, nx)


Scrub_NoInf(x) ==
    LET noNaN == IF IsNaN(x) THEN F(0) ELSE x
    IN IF FLess(noNaN, F(0)) THEN F(0) ELSE noNaN

\* a[np.isnan(a)] = 0.0; a[np.isinf(a)] = 0.0; a[a < 0] = 0.0
Scrub(x) ==
    LET noNaN == IF IsNaN(x) THEN F(0) ELSE x
        noInf == IF IsInf(noNaN) THEN F(0) ELSE noNaN
    IN IF FLess(noInf, F(0)) THEN F(0) ELSE noInf

\* np.maximum(current_pressures_grid, 1e-9)
Clamp(p) == FMaximum(p, EPS)

\* one element of density_grid under the ideal gas model
IdealGasDensity(p, initial_C, gamma) ==
    Scrub(FPow(FDiv(Clamp(p), initial_C), FDiv(I(1), gamma)))

\* one element of temperature_grid under the ideal gas model
IdealGasTemperature(p, density, R_specific_gas) ==
    Scrub(IF FGreater(density, EPS)
          THEN FDiv(Clamp(p), FMul(density, R_specific_gas))
          ELSE F(0))

\* the grids the two models compute, element by element
IdealGasDensityGrid(grid, initial_C, gamma) ==
    [z \in DOMAIN grid |-> [y \in DOMAIN grid[z] |-> [x \in DOMAIN grid[z][y] |->
        IdealGasDensity(grid[z][y][x], initial_C, gamma)]]]

IdealGasTemperatureGrid(grid, initial_C, gamma, R_specific_gas) ==
    [z \in DOMAIN grid |-> [y \in DOMAIN grid[z] |-> [x \in DOMAIN grid[z][y] |->
        IdealGasTemperature(grid[z][y][x],
                            IdealGasDensity(grid[z][y][x], initial_C, gamma),
                            R_specific_gas)]]]

ConstantGrid(grid, value) ==
    [z \in DOMAIN grid |-> [y \in DOMAIN grid[z] |-> [x \in DOMAIN grid[z][y] |-> value]]]

\* np.full_like(pressures, initial_density): the fill value is cast to the
\* dtype of the pressure array
FullLike(dtype, fill) ==
    IF dtype = "int64" THEN I(Trunc(ToFloat(fill))) ELSE ToFloat(fill)

\* np.zeros_like(pressures)
ZerosLike(dtype) == IF dtype = "int64" THEN I(0) ELSE F(0)

EmptyStepRecord_FrameZero(t_idx, current_time) ==
    [time |-> ToFloat(current_time), frame |-> 0,
     density_data |-> <<>>, velocity_data |-> <<>>, temperature_data |-> <<>>]

EmptyStepRecord(t_idx, current_time) ==
    [time |-> ToFloat(current_time), frame |-> t_idx,
     density_data |-> <<>>, velocity_data |-> <<>>, temperature_data |-> <<>>]

calculate_fluid_properties_at_timestep(t_idx, current_time, velocity_history, pressure_history, num_x, num_y, num_z, thermo_model, initial_density, R_specific_gas, gamma, initial_C) ==
    IF t_idx >= Len(velocity_history) \/ t_idx >= Len(pressure_history) THEN None
    ELSE LET current_velocities_flat == Ravel(velocity_history[t_idx + 1].v)
             current_pressures_flat == NpArray(pressure_history[t_idx + 1].v)
         IN
    IF Len(current_velocities_flat) = 0 \/ Len(current_pressures_flat.data) = 0
    THEN EmptyStepRecord(t_idx, current_time)
    ELSE IF ~(/\ VelocityReshapeOk(Len(current_velocities_flat), num_z, num_y, num_x)
              /\ ReshapeOk(Len(current_pressures_flat.data), num_z, num_y, num_x))
    THEN None
    ELSE LET nz == num_z.n
             ny == num_y.n
             nx == num_x.n
             current_velocities_grid ==
                 Reshape3(Triples(current_velocities_flat), nz, ny, nx)
             current_pressures_grid == Reshape3(current_pressures_flat.data, nz, ny, nx)
             dtype == current_pressures_flat.dtype
         IN
    IF thermo_model = "ideal_gas"
    THEN IF initial_C = None \/ NumEq(initial_C, F(0)) THEN None
         ELSE IF gamma = None \/ NumEq(gamma, F(0)) THEN None
         ELSE IF R_specific_gas = None \/ NumEq(R_specific_gas, F(0)) THEN None
         ELSE LET density_grid ==
                      IdealGasDensityGrid(current_pressures_grid, initial_C, gamma)
                  temperature_grid ==
                      IdealGasTemperatureGrid(current_pressures_grid, initial_C, gamma,
                                              R_specific_gas)
              IN [time |-> ToFloat(current_time), frame |-> t_idx,
                  density_data |-> Flatten3(density_grid, nz, ny, nx),
                  velocity_data |-> VelocityData(current_velocities_grid, nz, ny, nx),
                  temperature_data |-> Flatten3(temperature_grid, nz, ny, nx)]
    ELSE IF thermo_model = "incompressible"
    THEN LET density_grid ==
                 ConstantGrid(current_pressures_grid, FullLike(dtype, initial_density))
             temperature_grid ==
                 ConstantGrid(current_pressures_grid, ZerosLike(dtype))
         IN [time |-> ToFloat(current_time), frame |-> t_idx,
             density_data |-> Flatten3(density_grid, nz, ny, nx),
             velocity_data |-> VelocityData(current_velocities_grid, nz, ny, nx),
             temperature_data |-> Flatten3(temperature_grid, nz, ny, nx)]
    ELSE None

\* ------------------------------------------------------------------- inputs
\* The pressure values the inputs use, in a cycle; a time step's pressures are
\* a window of the cycle, so that every value meets every node.  The first two
\* are Python ints, so the window of them converts to an int64 array.
PCycle == <<I(2), I(1), F(3), NaN, PInf, NInf, F(-1), F(0)>>

Window(offset, len) ==
    [i \in 1..len |-> PCycle[((offset + i - 2) % Len(PCycle)) + 1]]

\* velocity rows, all distinct
VelocityRows(t, len) == [i \in 1..len |-> <<F(t), F(i), Q(1, 2)>>]

\* rows of a single component
ScalarRows(t, len) == [i \in 1..len |-> <<F(t + i)>>]

\* rows of no component
EmptyRows(len) == [i \in 1..len |-> <<>>]

TimePoints(T) == [i \in 1..T |-> Q(i, 2)]

NodesCoords(rows, cols) ==
    [i \in 1..rows |-> [j \in 1..cols |-> IF j = 1 THEN F(i) ELSE Q(j, 4)]]

NodesOf(shape) == shape[1].n * shape[2].n * shape[3].n

\* grid shapes [num_z, num_y, num_x] of at most MaxNodes nodes
GridShapes ==
    {shape \in {<<I(z), I(y), I(x)>> :
                    z \in 1..MaxNodes, y \in 1..MaxNodes, x \in 1..MaxNodes} :
        NodesOf(shape) <= MaxNodes}

\* how a time step's arrays are sized against the N nodes of the grid
\* ("scalarV": three rows of one component per node; "emptyRowsV": one row of
\* no component per node)
StepKinds ==
    {"full", "emptyV", "emptyP", "longP", "shortP", "longV", "scalarV", "emptyRowsV"}

VelocityLen(kind, N) ==
    CASE kind = "emptyV" -> 0
      [] kind = "longV" -> N + 1
      [] kind = "scalarV" -> 3 * N
      [] OTHER -> N

PressureLen(kind, N) ==
    CASE kind = "emptyP" -> 0
      [] kind = "longP" -> N + 1
      [] kind = "shortP" -> N - 1
      [] OTHER -> N

\* a simulation-results document: step 1 takes its pressures at offset o0 of
\* the cycle, the later steps from offset o1 on
NSDoc(T, shape, o0, o1, kinds) ==
    LET N == NodesOf(shape)
    IN [time_points |-> TimePoints(T),
        mesh_info |-> [nodes_coords |-> NodesCoords(N, 3),
                       grid_shape |-> shape,
                       dx |-> Q(1, 2), dy |-> F(1), dz |-> I(2)],
        velocity_history |->
            [t \in 1..T |->
                List(CASE kinds[t] = "scalarV" ->
                              ScalarRows(t, VelocityLen(kinds[t], N))
                       [] kinds[t] = "emptyRowsV" ->
                              EmptyRows(VelocityLen(kinds[t], N))
                       [] OTHER -> VelocityRows(t, VelocityLen(kinds[t], N)))],
        pressure_history |->
            [t \in 1..T |->
                List(Window(IF t = 1 THEN o0 ELSE o1 + (t - 2) * N,
                            PressureLen(kinds[t], N)))]]

AllFull(T) == [t \in 1..T |-> "full"]

\* an initial-conditions document
InitialDoc(density, model, R, gamma) ==
    [fluid_properties |->
        [density |-> density,
         thermodynamics |-> [model |-> model,
                             specific_gas_constant_J_per_kgK |-> R,
                             adiabatic_index_gamma |-> gamma]]]

\* (density, gamma) pairs whose power density ** gamma is exact
DensityGammaPairs ==
    {<<F(1), F(1)>>, <<I(4), I(1)>>, <<Q(3, 2), F(1)>>,
     <<F(1), Q(1, 2)>>, <<F(4), Q(1, 2)>>, <<Q(9, 4), Q(1, 2)>>}

ValidInitialDocs ==
    {InitialDoc(dg[1], "ideal_gas", R, dg[2]) : dg \in DensityGammaPairs, R \in {I(1), F(2)}}
      \cup {InitialDoc(d, "incompressible", F(2), F(1)) : d \in {F(1), Q(3, 2), Q(9, 4)}}

BaseInitialDoc == InitialDoc(Q(3, 2), "ideal_gas", F(2), F(1))
BaseIncompressibleDoc == InitialDoc(Q(3, 2), "Incompressible", F(2), F(1))
BaseNSDoc == NSDoc(MaxT, <<I(1), I(1), I(MaxNodes)>>, 1, 2, AllFull(MaxT))

\* ---- defective simulation-results documents
\* the defects, in the order they are applied to a document: changes of
\* values first, then removals of keys
DefectOrder ==
    <<"vh0_empty", "vh0_notlist", "ph0_empty", "ph0_notlist", "vh_short", "ph_short",
      "tp_empty", "grid_zero", "grid_float", "grid_len2",
      "dx_zero", "dy_negative", "dz_string", "nodes_extra", "nodes_cols2",
      "no_nodes_coords", "no_grid_shape", "no_dx", "no_mesh_info",
      "no_time_points", "no_velocity_history", "no_pressure_history">>

Defects == {DefectOrder[i] : i \in 1..Len(DefectOrder)}

ButLast(s) == SubSeq(s, 1, Len(s) - 1)

ApplyDefect(doc, defect) ==
    CASE defect = "vh0_empty" -> [doc EXCEPT !.velocity_history[1] = List(<<>>)]
      [] defect = "vh0_notlist" -> [doc EXCEPT !.velocity_history[1] = NotAList]
      [] defect = "ph0_empty" -> [doc EXCEPT !.pressure_history[1] = List(<<>>)]
      [] defect = "ph0_notlist" -> [doc EXCEPT !.pressure_history[1] = NotAList]
      [] defect = "vh_short" -> [doc EXCEPT !.velocity_history = ButLast(@)]
      [] defect = "ph_short" -> [doc EXCEPT !.pressure_history = ButLast(@)]
      [] defect = "tp_empty" -> [doc EXCEPT !.time_points = <<>>]
      [] defect = "grid_zero" -> [doc EXCEPT !.mesh_info.grid_shape[1] = I(0)]
      [] defect = "grid_float" -> [doc EXCEPT !.mesh_info.grid_shape[3] = ToFloat(@)]
      [] defect = "grid_len2" -> [doc EXCEPT !.mesh_info.grid_shape = ButLast(@)]
      [] defect = "dx_zero" -> [doc EXCEPT !.mesh_info.dx = F(0)]
      [] defect = "dy_negative" -> [doc EXCEPT !.mesh_info.dy = F(-1)]
      [] defect = "dz_string" -> [doc EXCEPT !.mesh_info.dz = NotANumber]
      [] defect = "nodes_extra" ->
            [doc EXCEPT !.mesh_info.nodes_coords = NodesCoords(Len(@) + 1, 3)]
      [] defect = "nodes_cols2" ->
            [doc EXCEPT !.mesh_info.nodes_coords = NodesCoords(Len(@), 2)]
      [] defect = "no_nodes_coords" ->
            [doc EXCEPT !.mesh_info = Drop(@, "nodes_coords")]
      [] defect = "no_grid_shape" -> [doc EXCEPT !.mesh_info = Drop(@, "grid_shape")]
      [] defect = "no_dx" -> [doc EXCEPT !.mesh_info = Drop(@, "dx")]
      [] defect = "no_mesh_info" -> Drop(doc, "mesh_info")
      [] defect = "no_time_points" -> Drop(doc, "time_points")
      [] defect = "no_velocity_history" -> Drop(doc, "velocity_history")
      [] defect = "no_pressure_history" -> Drop(doc, "pressure_history")

RECURSIVE ApplyDefects(_, _, _)
ApplyDefects(doc, defects, i) ==
    IF i > Len(DefectOrder) THEN doc
    ELSE ApplyDefects(IF DefectOrder[i] \in defects
                      THEN ApplyDefect(doc, DefectOrder[i]) ELSE doc,
                      defects, i + 1)

\* the sets of at most k defects
RECURSIVE DefectSets(_)
DefectSets(k) ==
    IF k = 0 THEN {{}}
    ELSE LET smaller == DefectSets(k - 1)
         IN smaller \cup {ds \cup {x} : ds \in smaller, x \in Defects}

\* ---- initial-conditions documents with missing and invalid entries
ModelStrings ==
    {"ideal_gas", "IDEAL_GAS", "Ideal_Gas", "incompressible", "Incompressible",
     "compressible_liquid", ""}

ThermodynamicsVariants ==
    {[k \in keys |-> full[k]] :
        keys \in SUBSET {"model", "specific_gas_constant_J_per_kgK", "adiabatic_index_gamma"},
        full \in [model : ModelStrings,
                  specific_gas_constant_J_per_kgK : {F(0), NotANumber, I(1), F(2)},
                  adiabatic_index_gamma : {F(0), F(-1), F(1), Q(1, 2)}]}

FluidPropertiesVariants ==
    {[k \in keys |-> full[k]] :
        keys \in SUBSET {"density", "thermodynamics"},
        full \in [density : {I(0), F(-1), NotANumber, F(1), I(4), Q(3, 2)},
                  thermodynamics : ThermodynamicsVariants]}

\* the model can compute initial_density ** gamma of the document, or the
\* resolver fails before it gets there
Computable(initial_data, pressure_history) ==
    \/ InitialDataError(initial_data, pressure_history) # "ok"
    \/ ThermoModelOf(initial_data.fluid_properties) # "ideal_gas"
    \/ PowExact(initial_data.fluid_properties.density,
                initial_data.fluid_properties.thermodynamics.adiabatic_index_gamma)

InitialDocVariants ==
    {doc \in {[x \in {} |-> x]} \cup {[fluid_properties |-> fp] : fp \in FluidPropertiesVariants} :
        Computable(doc, BaseNSDoc.pressure_history)}

\* ---- the inputs of a run: four families of document pairs
\* one valid document with up to MaxDefects defects
StructureFamily(ns, initial) ==
    \E ds \in DefectSets(MaxDefects) :
        /\ ns = ApplyDefects(BaseNSDoc, ds, 1)
        /\ initial = BaseInitialDoc

\* initial-conditions documents with missing and invalid entries
ThermoFamily(ns, initial) ==
    /\ ns = BaseNSDoc
    /\ initial \in InitialDocVariants

\* well-formed documents over every pressure value and every valid closure
NumericFamily(ns, initial) ==
    \E T \in 1..MaxT, N \in 1..MaxNodes,
       o0 \in 1..Len(PCycle), o1 \in 1..Len(PCycle) :
        /\ ns = NSDoc(T, <<I(1), I(1), I(N)>>, o0, o1, AllFull(T))
        /\ initial \in ValidInitialDocs

\* documents of no, one or more time steps that are full, empty, short, long
\* or of scalar rows, on every grid shape
ControlFamily(ns, initial) ==
    \E T \in 0..MaxT, shape \in GridShapes, o \in {<<1, 1>>, <<2, 3>>} :
        \E kinds \in [1..T -> StepKinds] :
            /\ ns = NSDoc(T, shape, o[1], o[2], kinds)
            /\ initial \in {BaseInitialDoc, BaseIncompressibleDoc}

\* datetime.datetime.now().isoformat()
Timestamps == {"2025-01-01T00:00:00", "2025-01-01T00:00:01"}

\* ---------------------------------------------------------- process_fluid_data
VARIABLES
    navier_stokes_data,       \* the simulation-results document passed in
    initial_data,             \* the initial-conditions document passed in
    pc,                       \* the stage the orchestrator is in
    navier_stokes_validated,  \* what validate_navier_stokes_data returned
    initial_validated,        \* what validate_initial_data returned
    t_idx,                    \* the loop index of the next time step
    time_steps_data,          \* the records accumulated so far
    output_data,              \* what process_fluid_data returned
    printed,                  \* the error messages printed, in order
    calls,                    \* the components invoked, in order
    first_output,             \* what an earlier call on the same documents returned
    metadata_file,            \* enriched_metadata.json
    advice_file,              \* geometry_resolution_advice.json
    flow_data_file,           \* flow_data.json
    orchestrator_config_file, \* config/orchestrator_config.json
    runs,                     \* the script runs of the sweep so far, in order
    cycle_pc,                 \* the script the sweep cycle runs next
    advice_at_start,          \* the advice file before the first script run
    dropbox_folder,           \* the entries of the Dropbox folder
    result,                   \* what files_list_folder returned
    next_entry,               \* the position of the loop over result.entries
    log_file,                 \* the lines appended to the log file
    dropbox_pc                \* where delete_files_except_step_and_flow is

\* the state of the conversion pipeline, of the resolution sweep and of the
\* Dropbox housekeeping
pipeline_vars == <<navier_stokes_data, initial_data, pc, navier_stokes_validated,
                   initial_validated, t_idx, time_steps_data, output_data, printed,
                   calls, first_output>>
sweep_vars == <<metadata_file, advice_file, flow_data_file, orchestrator_config_file,
                runs, cycle_pc, advice_at_start>>
dropbox_vars == <<dropbox_folder, result, next_entry, log_file, dropbox_pc>>

vars == <<pipeline_vars, sweep_vars, dropbox_vars>>

\* a local that is not bound yet, and the result of a call still running
Unset == [unset |-> TRUE]

\* a path at which there is no file
NoFile == [exists |-> FALSE]

navier_stokes_filename == "navier_stokes_results.json"
initial_data_filename == "initial_data.json"

Call(component, t) == [component |-> component, t |-> t]

\* no file of the resolution sweep is there and no script of it runs
SweepIdle ==
    /\ metadata_file = NoFile
    /\ advice_file = NoFile
    /\ flow_data_file = NoFile
    /\ orchestrator_config_file = NoFile
    /\ runs = <<>>
    /\ cycle_pc = "idle"
    /\ advice_at_start = NoFile

\* the Dropbox housekeeping is not running
DropboxIdle ==
    /\ dropbox_folder = {}
    /\ result = Unset
    /\ next_entry = 0
    /\ log_file = <<>>
    /\ dropbox_pc = "idle"

\* the locals of process_fluid_data on entry
Entry ==
    /\ pc = "Validating"
    /\ navier_stokes_validated = Unset
    /\ initial_validated = Unset
    /\ t_idx = 0
    /\ time_steps_data = <<>>
    /\ output_data = Unset
    /\ printed = <<>>
    /\ calls = <<>>

Init ==
    /\ \/ StructureFamily(navier_stokes_data, initial_data)
       \/ ThermoFamily(navier_stokes_data, initial_data)
       \/ NumericFamily(navier_stokes_data, initial_data)
       \/ ControlFamily(navier_stokes_data, initial_data)
    /\ Entry
    /\ first_output = Unset
    /\ SweepIdle
    /\ DropboxIdle

AfterValidation_Always(validated) == "ResolvingThermodynamics"

\* if navier_stokes_validated is None: return None
AfterValidation(validated) ==
    IF validated = None THEN "Aborted" ELSE "ResolvingThermodynamics"

\* if initial_validated is None: return None
AfterResolution(validated) ==
    IF validated = None THEN "Aborted" ELSE "DerivingSteps"

StepIsFatal_OffByOne(step_data, t, time_points) ==
    step_data = None /\ t + 1 < Len(time_points)

StepIsFatal_Never(step_data, t, time_points) == FALSE

\* if step_data is None and t_idx < len(time_points)
StepIsFatal(step_data, t, time_points) ==
    step_data = None /\ t < Len(time_points)

Accumulate_Prepend(steps, step_data) ==
    IF step_data # None THEN <<step_data>> \o steps ELSE steps

Accumulate_SkipEmpty(steps, step_data) ==
    IF step_data # None /\ step_data.density_data # <<>>
    THEN Append(steps, step_data) ELSE steps

\* elif step_data is not None: time_steps_data.append(step_data)
Accumulate(steps, step_data) ==
    IF step_data # None THEN Append(steps, step_data) ELSE steps

\* if not time_steps_data and len(time_points) > 0
NoOutputGenerated(steps, time_points) ==
    Len(steps) = 0 /\ Len(time_points) > 0

Say(message) == IF message = "ok" THEN printed ELSE Append(printed, message)

\* the return None of every failure path: the locals are gone
Abort ==
    /\ pc' = "Aborted"
    /\ output_data' = None
    /\ time_steps_data' = <<>>

\* ---- what a component leaves in the document it was handed
\* the validator reads its document with [] and isinstance, and np.array
\* copies the lists it converts: nothing is assigned into the document
DocumentAfterValidation(data) == data

\* the resolver reads with .get and float(); np.array(pressure_history[0]) is
\* a copy
DocumentsAfterResolution(documents) == documents

DocumentAfterStep_ClampedInPlace(data, t) ==
    IF data.pressure_history[t + 1].list
    THEN [data EXCEPT !.pressure_history[t + 1] =
             List([i \in 1..Len(@.v) |-> IF IsNumber(@.v[i]) THEN Clamp(@.v[i]) ELSE @.v[i]])]
    ELSE data

\* the engine at time step t: np.array copies the two lists of the step,
\* np.maximum, / and ** allocate their results, and the assignments of the
\* scrubbing go into density_grid and temperature_grid
DocumentAfterStep(data, t) == data

Validate ==
    /\ UNCHANGED <<sweep_vars, dropbox_vars>>
    /\ pc = "Validating"
    /\ navier_stokes_validated' = validate_navier_stokes_data(navier_stokes_data)
    /\ calls' = Append(calls, Call("validator", 0))
    /\ printed' = Say(NavierStokesError(navier_stokes_data))
    /\ IF AfterValidation(navier_stokes_validated') = "Aborted"
       THEN Abort
       ELSE /\ pc' = AfterValidation(navier_stokes_validated')
            /\ UNCHANGED <<output_data, time_steps_data>>
    /\ navier_stokes_data' = DocumentAfterValidation(navier_stokes_data)
    /\ UNCHANGED <<initial_data, initial_validated, t_idx, first_output>>

Resolve ==
    /\ UNCHANGED <<sweep_vars, dropbox_vars>>
    /\ pc = "ResolvingThermodynamics"
    /\ initial_validated' =
           validate_initial_data(initial_data, navier_stokes_validated.pressure_history)
    /\ calls' = Append(calls, Call("resolver", 0))
    /\ printed' = Say(InitialDataError(initial_data,
                                       navier_stokes_validated.pressure_history))
    /\ IF AfterResolution(initial_validated') = "Aborted"
       THEN Abort
       ELSE /\ pc' = AfterResolution(initial_validated')
            /\ UNCHANGED <<output_data, time_steps_data>>
    /\ initial_data' =
           DocumentsAfterResolution(<<initial_data, navier_stokes_data>>)[1]
    /\ navier_stokes_data' =
           DocumentsAfterResolution(<<initial_data, navier_stokes_data>>)[2]
    /\ UNCHANGED <<navier_stokes_validated, t_idx, first_output>>

StepData_ResolvedPerStep(t) ==
    LET pressures == navier_stokes_validated.pressure_history[t + 1]
        usable == /\ pressures.list
                  /\ Len(pressures.v) > 0
                  /\ \A i \in 1..Len(pressures.v) : IsNumber(pressures.v[i])
    IN calculate_fluid_properties_at_timestep(
        t, navier_stokes_validated.time_points[t + 1],
        navier_stokes_validated.velocity_history,
        navier_stokes_validated.pressure_history,
        navier_stokes_validated.num_x, navier_stokes_validated.num_y,
        navier_stokes_validated.num_z,
        initial_validated.thermo_model, initial_validated.initial_density,
        initial_validated.R_specific_gas, initial_validated.gamma,
        IF initial_validated.thermo_model = "ideal_gas" /\ usable
        THEN InitialC(Mean(pressures.v), initial_validated.initial_density,
                      initial_validated.gamma)
        ELSE initial_validated.initial_C)

\* the engine's result for time step t of the validated inputs
StepData(t) ==
    calculate_fluid_properties_at_timestep(
        t, navier_stokes_validated.time_points[t + 1],
        navier_stokes_validated.velocity_history,
        navier_stokes_validated.pressure_history,
        navier_stokes_validated.num_x, navier_stokes_validated.num_y,
        navier_stokes_validated.num_z,
        initial_validated.thermo_model, initial_validated.initial_density,
        initial_validated.R_specific_gas, initial_validated.gamma,
        initial_validated.initial_C)

\* one iteration of the loop over time_points
DeriveStep ==
    /\ UNCHANGED <<sweep_vars, dropbox_vars>>
    /\ pc = "DerivingSteps"
    /\ t_idx < Len(navier_stokes_validated.time_points)
    /\ calls' = Append(calls, Call("engine", t_idx))
    /\ IF StepIsFatal(StepData(t_idx), t_idx, navier_stokes_validated.time_points)
       THEN /\ Abort
            /\ printed' = Say("critical error during calculation")
            /\ UNCHANGED t_idx
       ELSE /\ time_steps_data' = Accumulate(time_steps_data, StepData(t_idx))
            /\ t_idx' = t_idx + 1
            /\ UNCHANGED <<pc, output_data, printed>>
    /\ navier_stokes_data' = DocumentAfterStep(navier_stokes_data, t_idx)
    /\ UNCHANGED <<initial_data, navier_stokes_validated, initial_validated,
                   first_output>>

\* the loop is over: the check that some record was produced
FinishLoop ==
    /\ UNCHANGED <<sweep_vars, dropbox_vars>>
    /\ pc = "DerivingSteps"
    /\ t_idx = Len(navier_stokes_validated.time_points)
    /\ IF NoOutputGenerated(time_steps_data, navier_stokes_validated.time_points)
       THEN /\ Abort
            /\ printed' = Say("no valid time step data")
       ELSE /\ pc' = "Assembling"
            /\ UNCHANGED <<output_data, time_steps_data, printed>>
    /\ UNCHANGED <<navier_stokes_data, initial_data, navier_stokes_validated,
                   initial_validated, t_idx, calls, first_output>>

OutputData_ZYX(timestamp) ==
    [volume_name |-> "FluidVolume",
     metadata |-> [source_navier_stokes |-> navier_stokes_filename,
                   source_initial_data |-> initial_data_filename,
                   generated_timestamp |-> timestamp],
     grid_info |-> [dimensions |-> navier_stokes_validated.grid_shape,
                    voxel_size |-> <<navier_stokes_validated.dx,
                                     navier_stokes_validated.dy,
                                     navier_stokes_validated.dz>>,
                    origin |-> [j \in 1..3 |->
                                   ToFloat(navier_stokes_validated.nodes_coords[1][j])]],
     time_steps |-> time_steps_data]

OutputData_StampedRecords(timestamp) ==
    [volume_name |-> "FluidVolume",
     metadata |-> [source_navier_stokes |-> navier_stokes_filename,
                   source_initial_data |-> initial_data_filename,
                   generated_timestamp |-> timestamp],
     grid_info |-> [dimensions |-> <<navier_stokes_validated.num_x,
                                     navier_stokes_validated.num_y,
                                     navier_stokes_validated.num_z>>,
                    voxel_size |-> <<navier_stokes_validated.dx,
                                     navier_stokes_validated.dy,
                                     navier_stokes_validated.dz>>,
                    origin |-> [j \in 1..3 |->
                                   ToFloat(navier_stokes_validated.nodes_coords[1][j])]],
     time_steps |-> [k \in 1..Len(time_steps_data) |->
                        [time_steps_data[k] EXCEPT !.frame = timestamp]]]

\* output_data = {...}
OutputData(timestamp) ==
    [volume_name |-> "FluidVolume",
     metadata |-> [source_navier_stokes |-> navier_stokes_filename,
                   source_initial_data |-> initial_data_filename,
                   generated_timestamp |-> timestamp],
     grid_info |-> [dimensions |-> <<navier_stokes_validated.num_x,
                                     navier_stokes_validated.num_y,
                                     navier_stokes_validated.num_z>>,
                    voxel_size |-> <<navier_stokes_validated.dx,
                                     navier_stokes_validated.dy,
                                     navier_stokes_validated.dz>>,
                    origin |-> [j \in 1..3 |->
                                   ToFloat(navier_stokes_validated.nodes_coords[1][j])]],
     time_steps |-> time_steps_data]

\* the construction of the output document and the return
Assemble ==
    /\ UNCHANGED <<sweep_vars, dropbox_vars>>
    /\ pc = "Assembling"
    /\ \E timestamp \in Timestamps : output_data' = OutputData(timestamp)
    /\ pc' = "Done"
    /\ UNCHANGED <<navier_stokes_data, initial_data, navier_stokes_validated,
                   initial_validated, t_idx, time_steps_data, printed, calls,
                   first_output>>

Next == Validate \/ Resolve \/ DeriveStep \/ FinishLoop \/ Assemble

Spec == Init /\ [][Next]_vars

\* ---- two calls of process_fluid_data on the same two documents
\* the first call has returned; the caller keeps its result and calls again:
\* the locals of the function are fresh, the documents are the same objects,
\* which process_fluid_data only reads
CallAgain ==
    /\ UNCHANGED <<sweep_vars, dropbox_vars>>
    /\ pc \in {"Done", "Aborted"}
    /\ first_output = Unset
    /\ first_output' = output_data
    /\ pc' = "Validating"
    /\ navier_stokes_validated' = Unset
    /\ initial_validated' = Unset
    /\ t_idx' = 0
    /\ time_steps_data' = <<>>
    /\ output_data' = Unset
    /\ printed' = <<>>
    /\ calls' = <<>>
    /\ UNCHANGED <<navier_stokes_data, initial_data>>

\* the documents of the runs that are made twice
InitTwoCalls ==
    /\ \/ NumericFamily(navier_stokes_data, initial_data)
       \/ ControlFamily(navier_stokes_data, initial_data)
       \/ ThermoFamily(navier_stokes_data, initial_data)
       \/ \E defect \in Defects :
              /\ navier_stokes_data = ApplyDefect(BaseNSDoc, defect)
              /\ initial_data = BaseInitialDoc
    /\ Entry
    /\ first_output = Unset
    /\ SweepIdle
    /\ DropboxIdle

NextTwoCalls == Validate \/ Resolve \/ DeriveStep \/ FinishLoop \/ Assemble \/ CallAgain

SpecTwoCalls == InitTwoCalls /\ [][NextTwoCalls]_vars

\* ---- the time steps derived in any order
\* The loop body reads its own time step only, so the steps may be derived
\* in any order; here time_steps_data holds each result, the fatal signal
\* included, at the index of its time step.
DeriveAnyStep ==
    /\ UNCHANGED <<sweep_vars, dropbox_vars>>
    /\ pc = "DerivingSteps"
    /\ \E t \in 0..(Len(navier_stokes_validated.time_points) - 1) :
           /\ (t + 1) \notin DOMAIN time_steps_data
           /\ time_steps_data' =
                  [k \in (DOMAIN time_steps_data) \cup {t + 1} |->
                      IF k = t + 1 THEN StepData(t) ELSE time_steps_data[k]]
           /\ calls' = Append(calls, Call("engine", t))
           /\ navier_stokes_data' = DocumentAfterStep(navier_stokes_data, t)
    /\ UNCHANGED <<initial_data, pc, navier_stokes_validated, initial_validated,
                   t_idx, output_data, printed, first_output>>

\* every step is derived: the run fails if some step gave the fatal signal,
\* else the results are taken in the order of their index
Collect ==
    /\ UNCHANGED <<sweep_vars, dropbox_vars>>
    /\ pc = "DerivingSteps"
    /\ DOMAIN time_steps_data = 1..Len(navier_stokes_validated.time_points)
    /\ IF \E k \in DOMAIN time_steps_data :
              StepIsFatal(time_steps_data[k], k - 1, navier_stokes_validated.time_points)
       THEN /\ Abort
            /\ printed' = Say("critical error during calculation")
       ELSE IF NoOutputGenerated(time_steps_data, navier_stokes_validated.time_points)
       THEN /\ Abort
            /\ printed' = Say("no valid time step data")
       ELSE /\ pc' = "Assembling"
            /\ UNCHANGED <<output_data, time_steps_data, printed>>
    /\ UNCHANGED <<navier_stokes_data, initial_data, navier_stokes_validated,
                   initial_validated, t_idx, calls, first_output>>

\* documents of time steps of every kind on the grids of a single row
OrderFamily(ns, initial) ==
    \E T \in 0..MaxT, N \in 1..MaxNodes, o \in {<<1, 1>>, <<2, 3>>} :
        \E kinds \in [1..T -> StepKinds] :
            /\ ns = NSDoc(T, <<I(1), I(1), I(N)>>, o[1], o[2], kinds)
            /\ initial \in {BaseInitialDoc, BaseIncompressibleDoc}

InitAnyOrder ==
    /\ OrderFamily(navier_stokes_data, initial_data)
    /\ Entry
    /\ first_output = Unset
    /\ SweepIdle
    /\ DropboxIdle

NextAnyOrder == Validate \/ Resolve \/ DeriveAnyStep \/ Collect \/ Assemble

SpecAnyOrder == InitAnyOrder /\ [][NextAnyOrder]_vars

\* ------------------------------------------------------ the resolution sweep
\* Resolutions and lengths are whole numbers of 1e-5 mm (a resolution in the
\* files has at most 5 decimals); the bounding box is in whole mm.
MaxRuns == 3
MaxDim == 2
MaxScriptRuns == 20

NUM_STEPS == 10

\* 1 / MAX_VOXELS ** (1/3) = 1 / 215.443... = 0.0046416 mm, in units of 1e-7 mm:
\* the safe resolution per mm of dim_x
SafeResolutionPerMm == 46416

\* round(x, 5) of x = numerator / denominator * 1e-5 mm, x >= 0
Round5(numerator, denominator) == (2 * numerator + denominator) \div (2 * denominator)

\* no pipeline document is there
PipelineIdle ==
    /\ navier_stokes_data = Unset
    /\ initial_data = Unset
    /\ Entry
    /\ first_output = Unset

\* an exception left the function
Raised == [raised |-> TRUE]

Metadata(dim_x, dim_y, dim_z) ==
    [domain_definition |-> [min_x |-> 0, max_x |-> dim_x, min_y |-> 1, max_y |-> 1 + dim_y,
                            min_z |-> 0, max_z |-> dim_z]]

Min(a, b) == IF a <= b THEN a ELSE b

\* compute_resolution_sweep: the NUM_STEPS - 1 values between the safe
\* resolution and the smallest dimension
compute_resolution_sweep(data) ==
    IF data = NoFile THEN Raised
    ELSE LET domain == data.domain_definition
             dim_x == domain.max_x - domain.min_x
             dim_y == domain.max_y - domain.min_y
             dim_z == domain.max_z - domain.min_z
             min_dim == Min(dim_x, Min(dim_y, dim_z))
             safe_resolution == dim_x * SafeResolutionPerMm
         IN [i \in 1..(NUM_STEPS - 1) |->
                Round5(safe_resolution * (NUM_STEPS - i) + i * min_dim * 10000000,
                       NUM_STEPS * 100)]

\* write_advice_file(current_resolution, sweep_array)
Advice(current_resolution, sweep_array) ==
    [current_resolution_run |-> current_resolution, resolution_runs_array |-> sweep_array]

\* the advice file after the first block of the main: computed and written
\* when it was not there
AdviceAfterCompute ==
    IF advice_file # NoFile THEN advice_file
    ELSE IF compute_resolution_sweep(metadata_file) = Raised THEN Raised
    ELSE Advice(compute_resolution_sweep(metadata_file)[1],
                compute_resolution_sweep(metadata_file))

FlowData(output_interval, default_resolution) ==
    [simulation_parameters |-> [output_interval |-> output_interval],
     model_properties |-> [default_resolution |-> default_resolution]]

\* update_flow_data(current_resolution): the flow_data.json it writes
update_flow_data(flow_data, advice, current_resolution) ==
    IF flow_data = NoFile THEN Raised
    ELSE IF "simulation_parameters" \notin DOMAIN flow_data THEN Raised
    ELSE IF "model_properties" \notin DOMAIN flow_data THEN Raised
    ELSE IF Len(advice.resolution_runs_array) < 2 THEN Raised
    ELSE [flow_data EXCEPT
             !.simulation_parameters.output_interval = advice.resolution_runs_array[2],
             !.model_properties.default_resolution = current_resolution]

\* what the main of resolution_sweep makes of flow_data.json
FlowDataAfterSweep ==
    IF AdviceAfterCompute = Raised THEN Raised
    ELSE update_flow_data(flow_data_file, AdviceAfterCompute,
                          AdviceAfterCompute.current_resolution_run)

Run(script, exit_code, advice) ==
    [script |-> script, exit_code |-> exit_code, advice |-> advice]

\* what the cycle does after a script: a script that exits with 1 stops the
\* cycle or not, as the caller of the scripts has it
AfterScript(exit_code, next) ==
    IF exit_code = 0 THEN {next} ELSE {next, "halted"}

\* the main of resolution_sweep.py
ResolutionSweepMain ==
    /\ cycle_pc = "resolution_sweep"
    /\ Len(runs) < MaxScriptRuns
    /\ advice_file' = IF AdviceAfterCompute = Raised THEN advice_file
                      ELSE AdviceAfterCompute
    /\ flow_data_file' = IF FlowDataAfterSweep = Raised THEN flow_data_file
                         ELSE FlowDataAfterSweep
    /\ runs' = Append(runs, Run("resolution_sweep",
                                IF FlowDataAfterSweep = Raised THEN 1 ELSE 0,
                                advice_file'))
    /\ cycle_pc' \in AfterScript(IF FlowDataAfterSweep = Raised THEN 1 ELSE 0,
                                "advance_resolution")
    /\ UNCHANGED <<metadata_file, orchestrator_config_file, advice_at_start>>
    /\ UNCHANGED <<pipeline_vars, dropbox_vars>>

AdvancedAdvice_StaleCurrent(advice) ==
    [advice EXCEPT !.current_resolution_run = advice.resolution_runs_array[1],
                   !.resolution_runs_array = Tail(advice.resolution_runs_array)]

\* sweep_array = sweep_array[1:]; new_resolution = sweep_array[0]
AdvancedAdvice(advice) ==
    [advice EXCEPT !.current_resolution_run = Tail(advice.resolution_runs_array)[1],
                   !.resolution_runs_array = Tail(advice.resolution_runs_array)]

\* advance_resolution(): the advice file and the orchestrator configuration
\* it leaves, and the exit code of the script
advance_resolution(advice, config) ==
    IF advice = NoFile THEN [advice |-> advice, config |-> config, exit_code |-> 1]
    ELSE IF Len(advice.resolution_runs_array) > 1
    THEN [advice |-> AdvancedAdvice(advice), config |-> config, exit_code |-> 0]
    ELSE [advice |-> advice, config |-> [enabled |-> FALSE], exit_code |-> 0]

\* the files after one call of advance_resolution
Advance ==
    LET after == advance_resolution(advice_file, orchestrator_config_file)
    IN /\ Len(runs) < MaxScriptRuns
       /\ advice_file' = after.advice
       /\ orchestrator_config_file' = after.config
       /\ runs' = Append(runs, Run("advance_resolution", after.exit_code, after.advice))
       /\ UNCHANGED <<metadata_file, flow_data_file, advice_at_start>>
       /\ UNCHANGED <<pipeline_vars, dropbox_vars>>

\* advance_resolution_run.py as the second script of the cycle
AdvanceInCycle ==
    /\ cycle_pc = "advance_resolution"
    /\ Advance
    /\ cycle_pc' \in
           IF orchestrator_config_file' = [enabled |-> FALSE] THEN {"disabled"}
           ELSE AfterScript(runs'[Len(runs')].exit_code, "resolution_sweep")

\* advance_resolution_run.py called again and again
AdvanceAgain ==
    /\ cycle_pc = "advance_resolution"
    /\ Advance
    /\ UNCHANGED cycle_pc

\* arrays of n resolutions
RunsArrays(n) == [1..n -> {464, 5418, 10371}]

AdviceFiles ==
    {Advice(sweep_array[1], sweep_array) :
        sweep_array \in UNION {RunsArrays(n) : n \in 1..MaxRuns}}

FlowDataFiles ==
    {FlowData(0, 0), [model_properties |-> [default_resolution |-> 0]],
     [simulation_parameters |-> [output_interval |-> 0]], NoFile}

MetadataFiles ==
    {Metadata(dim_x, dim_y, dim_z) : dim_x \in 1..MaxDim, dim_y \in 1..MaxDim, dim_z \in 1..MaxDim}
        \cup {NoFile}

\* the cycle starts with the orchestrator enabled, with or without an advice
\* file of an earlier run
InitSweep ==
    /\ PipelineIdle
    /\ DropboxIdle
    /\ metadata_file \in MetadataFiles
    /\ advice_file \in AdviceFiles \cup {NoFile}
    /\ flow_data_file \in FlowDataFiles
    /\ orchestrator_config_file = [enabled |-> TRUE]
    /\ runs = <<>>
    /\ cycle_pc = "resolution_sweep"
    /\ advice_at_start = advice_file

NextSweep == ResolutionSweepMain \/ AdvanceInCycle

SpecSweep == InitSweep /\ [][NextSweep]_vars

\* an advice file is there, of any current_resolution_run
InitAdvance ==
    /\ PipelineIdle
    /\ DropboxIdle
    /\ metadata_file = NoFile
    /\ \E advice \in AdviceFiles : \E current \in {464, 5418} :
           advice_file = [advice EXCEPT !.current_resolution_run = current]
    /\ flow_data_file = NoFile
    /\ orchestrator_config_file \in {NoFile, [enabled |-> TRUE]}
    /\ runs = <<>>
    /\ cycle_pc = "advance_resolution"
    /\ advice_at_start = advice_file

NextAdvance == AdvanceAgain

SpecAdvance == InitAdvance /\ [][NextAdvance]_vars

\* --------------------------------------------------- Dropbox housekeeping
\* the most entries the server puts in one page of a folder listing
MaxPage == 2

\* what the folder can hold, in the order the server lists it: files
\* (FileMetadata) and a folder (FolderMetadata)
Catalogue ==
    <<[name |-> "bracket.step", kind |-> "FileMetadata"],
      [name |-> "flow_data.json", kind |-> "FileMetadata"],
      [name |-> "fluid_simulation_input.json", kind |-> "FileMetadata"],
      [name |-> "Housing.STEP", kind |-> "FileMetadata"],
      [name |-> "geometry_resolution_advice.json", kind |-> "FileMetadata"],
      [name |-> "archive", kind |-> "FolderMetadata"],
      [name |-> "navier_stokes_runs.zip", kind |-> "FileMetadata"],
      [name |-> "navier_stokes_output.zip", kind |-> "FileMetadata"]>>

\* name.endswith(".step"), on the names of the catalogue
EndsWithStep(name) == name \in {"bracket.step"}

\* entry.path_lower, on the names of the catalogue
PathLower(name) ==
    CASE name = "Housing.STEP" -> "/simulations/housing.step"
      [] name = "bracket.step" -> "/simulations/bracket.step"
      [] name = "flow_data.json" -> "/simulations/flow_data.json"
      [] name = "fluid_simulation_input.json" -> "/simulations/fluid_simulation_input.json"
      [] name = "geometry_resolution_advice.json" ->
             "/simulations/geometry_resolution_advice.json"
      [] name = "archive" -> "/simulations/archive"
      [] name = "navier_stokes_runs.zip" -> "/simulations/navier_stokes_runs.zip"
      [] name = "navier_stokes_output.zip" -> "/simulations/navier_stokes_output.zip"

\* the condition under which delete_files_except_step_and_flow leaves a file
IsKept(name) ==
    \/ EndsWithStep(name)
    \/ name = "flow_data.json"
    \/ name = "geometry_resolution_advice.json"
    \/ name = "navier_stokes_runs.zip"

\* the entries of the folder in the order of the listing
RECURSIVE ListingFrom(_)
ListingFrom(i) ==
    IF i > Len(Catalogue) THEN <<>>
    ELSE IF Catalogue[i] \in dropbox_folder THEN <<Catalogue[i]>> \o ListingFrom(i + 1)
    ELSE ListingFrom(i + 1)

Listing == ListingFrom(1)

LogLine(event, path) == [event |-> event, path |-> path]

\* refresh_access_token and the opening of the log file
RefreshAccessToken ==
    /\ dropbox_pc = "refresh_access_token"
    /\ \E status_code \in {200, 401} :
           IF status_code = 200
           THEN /\ dropbox_pc' = "files_list_folder"
                /\ log_file' = Append(log_file, LogLine("Starting selective deletion...", ""))
           ELSE /\ dropbox_pc' = "raised"
                /\ UNCHANGED log_file
    /\ UNCHANGED <<dropbox_folder, result, next_entry>>
    /\ UNCHANGED <<pipeline_vars, sweep_vars>>

\* result = dbx.files_list_folder(dropbox_folder): one page of the listing,
\* or an exception, caught by the except of the function
FilesListFolder ==
    /\ dropbox_pc = "files_list_folder"
    /\ \/ \E size \in 0..MaxPage :
              /\ size = Len(Listing) \/ (size = MaxPage /\ size < Len(Listing))
              /\ result' = [entries |-> SubSeq(Listing, 1, size),
                            has_more |-> size < Len(Listing)]
              /\ next_entry' = 1
              /\ dropbox_pc' = "for entry in result.entries"
              /\ UNCHANGED log_file
       \/ /\ log_file' = Append(log_file, LogLine("Error during deletion", ""))
          /\ dropbox_pc' = "returned"
          /\ UNCHANGED <<result, next_entry>>
    /\ UNCHANGED dropbox_folder
    /\ UNCHANGED <<pipeline_vars, sweep_vars>>

\* delete_file_from_dropbox: the file is deleted, or the call fails and the
\* failure is logged
DeleteFileFromDropbox(entry) ==
    \/ /\ dropbox_folder' = dropbox_folder \ {entry}
       /\ log_file' = Append(log_file, LogLine("Deleted file from Dropbox",
                                               PathLower(entry.name)))
    \/ /\ log_file' = Append(log_file, LogLine("Failed to delete file",
                                               PathLower(entry.name)))
       /\ UNCHANGED dropbox_folder

\* one iteration of the loop over result.entries
VisitEntry ==
    /\ dropbox_pc = "for entry in result.entries"
    /\ next_entry <= Len(result.entries)
    /\ LET entry == result.entries[next_entry]
       IN IF entry.kind = "FileMetadata" /\ ~IsKept(entry.name)
          THEN DeleteFileFromDropbox(entry)
          ELSE UNCHANGED <<dropbox_folder, log_file>>
    /\ next_entry' = next_entry + 1
    /\ UNCHANGED <<result, dropbox_pc>>
    /\ UNCHANGED <<pipeline_vars, sweep_vars>>

\* the loop is over
DeletionCompleted ==
    /\ dropbox_pc = "for entry in result.entries"
    /\ next_entry > Len(result.entries)
    /\ log_file' = Append(log_file, LogLine("Selective deletion completed.", ""))
    /\ dropbox_pc' = "returned"
    /\ UNCHANGED <<dropbox_folder, result, next_entry>>
    /\ UNCHANGED <<pipeline_vars, sweep_vars>>

InitDropbox ==
    /\ PipelineIdle
    /\ SweepIdle
    /\ dropbox_folder \in SUBSET {Catalogue[i] : i \in 1..Len(Catalogue)}
    /\ result = Unset
    /\ next_entry = 0
    /\ log_file = <<>>
    /\ dropbox_pc = "refresh_access_token"

NextDropbox == RefreshAccessToken \/ FilesListFolder \/ VisitEntry \/ DeletionCompleted

SpecDropbox == InitDropbox /\ [][NextDropbox]_vars

\* ------------------------------------------------------------------ properties
Returned == pc = "Done"

\* what the two input documents say
InputModel == ThermoModelOf(initial_data.fluid_properties)
InputDensity == initial_data.fluid_properties.density
InputR == initial_data.fluid_properties.thermodynamics.specific_gas_constant_J_per_kgK
InputGamma == initial_data.fluid_properties.thermodynamics.adiabatic_index_gamma
InputT == Len(navier_stokes_data.time_points)
InputNodes == NodesOf(navier_stokes_data.mesh_info.grid_shape)
InputPressures(t) == navier_stokes_data.pressure_history[t + 1].v
InputVelocities(t) == navier_stokes_data.velocity_history[t + 1].v

\* referenceConstant = mean(pressure_history[0]) / initialDensity ** gamma
ReferenceConstant == FDiv(Mean(InputPressures(0)), FPow(InputDensity, InputGamma))

\* an array of the step has no element (numpy's size is 0)
StepIsEmpty(t) == Len(Ravel(InputVelocities(t))) = 0 \/ Len(InputPressures(t)) = 0
\* one velocity row of three components and one pressure per node
StepIsFull(t) ==
    /\ Len(InputVelocities(t)) = InputNodes
    /\ \A i \in 1..Len(InputVelocities(t)) : Len(InputVelocities(t)[i]) = 3
    /\ Len(InputPressures(t)) = InputNodes

\* the records of the returned document, by time step index
Record(t) == output_data.time_steps[t + 1]
Records == 0..(Len(output_data.time_steps) - 1)

\* (p / referenceConstant) ** (1 / gamma)
FormulaDensity(p) == FPow(FDiv(p, ReferenceConstant), FDiv(I(1), InputGamma))
\* p / (density * R)
FormulaTemperature(p, density) == FDiv(p, FMul(density, InputR))

ZeroUnlessFinite(x) == IF IsFinite(x) THEN x ELSE F(0)

\* C1 as stated: in a returned ideal-gas document every node of every full
\* time step has density (p / referenceConstant) ** (1/gamma) and temperature
\* p / (density * R), p being the node's input pressure.
C1_FormulaOnInputPressure ==
    (Returned /\ InputModel = "ideal_gas") =>
        \A t \in Records : StepIsFull(t) =>
            \A i \in 1..InputNodes :
                LET p == InputPressures(t)[i]
                    density == Record(t).density_data[i]
                IN /\ NumEq(density, FormulaDensity(p))
                   /\ NumEq(Record(t).temperature_data[i], FormulaTemperature(p, density))

\* C1 amended: the formulas hold of the clamped pressure max(p, 1e-9); the
\* density is (max(p, 1e-9) / referenceConstant) ** (1/gamma) when that value
\* is finite and 0.0 otherwise, and the temperature is
\* max(p, 1e-9) / (density * R) when the density exceeds 1e-9 and the quotient
\* is finite, and 0.0 otherwise.
C1_FormulaOnClampedPressure ==
    (Returned /\ InputModel = "ideal_gas") =>
        \A t \in Records : StepIsFull(t) =>
            \A i \in 1..InputNodes :
                LET p == FMaximum(InputPressures(t)[i], EPS)
                    density == Record(t).density_data[i]
                IN /\ density = ZeroUnlessFinite(FormulaDensity(p))
                   /\ Record(t).temperature_data[i] =
                          IF FGreater(density, EPS)
                          THEN ZeroUnlessFinite(FormulaTemperature(p, density))
                          ELSE F(0)

\* a returned ideal-gas document with gamma = 1/2 that holds a node of
\* positive pressure, density above 1e-9 and positive temperature, and a node
\* whose pressure was clamped
C1_Witness ==
    /\ Returned /\ InputModel = "ideal_gas" /\ ToFloat(InputGamma) = Q(1, 2)
    /\ \E t \in Records : StepIsFull(t) /\
          \E i, j \in 1..InputNodes :
              /\ IsFinite(InputPressures(t)[i]) /\ FGreater(InputPressures(t)[i], F(1))
              /\ FGreater(Record(t).density_data[i], EPS)
              /\ FGreater(Record(t).temperature_data[i], F(0))
              /\ FLess(InputPressures(t)[j], EPS)
              /\ FGreater(Record(t).density_data[j], F(0))

\* C2: in a returned incompressible document every node of every full time
\* step has density fluid_properties.density and temperature 0, whatever the
\* pressures are and whether they are ints or floats.
C2_IncompressibleDensity ==
    (Returned /\ InputModel = "incompressible") =>
        \A t \in Records : StepIsFull(t) =>
            \A i \in 1..InputNodes :
                /\ NumEq(Record(t).density_data[i], InputDensity)
                /\ NumEq(Record(t).temperature_data[i], F(0))

\* C8: every density and temperature value of a record the engine emitted
\* under the ideal gas model is finite and >= 0.
C8_FiniteNonNegative ==
    (initial_validated \notin {Unset, None} /\ initial_validated.thermo_model = "ideal_gas") =>
        \A k \in 1..Len(time_steps_data) :
            /\ \A i \in 1..Len(time_steps_data[k].density_data) :
                   /\ IsFinite(time_steps_data[k].density_data[i])
                   /\ ~FLess(time_steps_data[k].density_data[i], F(0))
            /\ \A i \in 1..Len(time_steps_data[k].temperature_data) :
                   /\ IsFinite(time_steps_data[k].temperature_data[i])
                   /\ ~FLess(time_steps_data[k].temperature_data[i], F(0))

\* records emitted under a finite reference constant for a NaN pressure, an
\* infinite pressure and a pressure that is not positive
C8_Witness ==
    /\ initial_validated \notin {Unset, None}
    /\ initial_validated.thermo_model = "ideal_gas"
    /\ IsFinite(initial_validated.initial_C)
    /\ \A kind \in {"nan", "+inf", "nonpositive"} :
        \E k \in 1..Len(time_steps_data) :
            \E i \in 1..Len(time_steps_data[k].density_data) :
                LET p == InputPressures(k - 1)[i]
                IN CASE kind = "nan" -> IsNaN(p)
                     [] kind = "+inf" -> p = PInf
                     [] kind = "nonpositive" -> FLessEq(p, F(0))

\* ---- the orchestrator's handling of the engine's results
ValidatorSucceeded == navier_stokes_validated \notin {Unset, None}
ResolverSucceeded == initial_validated \notin {Unset, None}

\* C3: when the engine returns None for time step k, the pipeline returns
\* None at once: the call is the last one made, no document exists and the
\* records accumulated for the steps before k are gone.
C3_FatalStepAborts ==
    \A j \in 1..Len(calls) :
        (calls[j].component = "engine" /\ StepData(calls[j].t) = None) =>
            /\ j = Len(calls)
            /\ pc = "Aborted"
            /\ output_data = None
            /\ time_steps_data = <<>>

\* the engine failed on a time step after the first, with records accumulated
C3_Witness ==
    /\ pc = "Aborted"
    /\ Len(calls) >= 4
    /\ calls[Len(calls)].component = "engine"
    /\ StepData(calls[Len(calls)].t) = None
    /\ StepData(0) # None

\* the input with its empty arrays replaced by populated ones
FilledVelocityHistory ==
    [t \in 1..InputT |->
        IF Len(InputVelocities(t - 1)) = 0
        THEN List(VelocityRows(t, InputNodes))
        ELSE navier_stokes_data.velocity_history[t]]

FilledPressureHistory ==
    [t \in 1..InputT |->
        IF Len(InputPressures(t - 1)) = 0
        THEN List(Window(1, InputNodes))
        ELSE navier_stokes_data.pressure_history[t]]

\* the record of time step t of the input without its empty steps
RecordWithoutEmptySteps(t) ==
    LET thermo == validate_initial_data(initial_data, FilledPressureHistory)
        grid_shape == navier_stokes_data.mesh_info.grid_shape
    IN calculate_fluid_properties_at_timestep(
           t, navier_stokes_data.time_points[t + 1],
           FilledVelocityHistory, FilledPressureHistory,
           grid_shape[3], grid_shape[2], grid_shape[1],
           thermo.thermo_model, thermo.initial_density,
           thermo.R_specific_gas, thermo.gamma, thermo.initial_C)

IsDegenerate(record) ==
    /\ record.density_data = <<>>
    /\ record.velocity_data = <<>>
    /\ record.temperature_data = <<>>

\* an accepted input over a grid of whole numbers in which some time steps
\* have an empty array and every other time step is populated
InputWithEmptySteps ==
    /\ NavierStokesError(navier_stokes_data) = "ok"
    /\ InitialDataError(initial_data, navier_stokes_data.pressure_history) = "ok"
    /\ \A i \in 1..3 : IsInt(navier_stokes_data.mesh_info.grid_shape[i])
    /\ \E t \in 0..(InputT - 1) : StepIsEmpty(t)
    /\ \A t \in 0..(InputT - 1) : StepIsEmpty(t) \/ StepIsFull(t)

C5_EveryRecordHasNodeCount ==
    Returned =>
        \A t \in Records :
            /\ Len(Record(t).density_data) = InputNodes
            /\ Len(Record(t).velocity_data) = InputNodes
            /\ Len(Record(t).temperature_data) = InputNodes

\* C5 amended: the three arrays have num_x*num_y*num_z entries in the record
\* of every time step whose input arrays are both non-empty, and are all
\* empty in the record of a time step with an empty input array.
C5_NodeCountOrEmpty ==
    Returned =>
        \A t \in Records :
            LET n == IF StepIsEmpty(t) THEN 0 ELSE InputNodes
            IN /\ Len(Record(t).density_data) = n
               /\ Len(Record(t).velocity_data) = n
               /\ Len(Record(t).temperature_data) = n

\* a document on a grid of several nodes along x with a full and an empty record
C5_Witness ==
    /\ Returned
    /\ navier_stokes_data.mesh_info.grid_shape[3].n > 1
    /\ \E t, u \in Records :
        /\ Len(Record(t).density_data) = InputNodes
        /\ Len(Record(u).density_data) = 0

\* C6: in every record of a returned document the three arrays have the same
\* length, the records of empty steps included.
C6_EqualLengths ==
    Returned =>
        \A t \in Records :
            /\ Len(Record(t).density_data) = Len(Record(t).velocity_data)
            /\ Len(Record(t).velocity_data) = Len(Record(t).temperature_data)

\* a document with a populated record and with the record of a step that had
\* velocities and no pressures
C6_Witness ==
    /\ Returned
    /\ \E t, u \in Records :
        /\ Len(Record(t).velocity_data) > 0
        /\ Len(InputVelocities(u)) > 0 /\ Len(InputPressures(u)) = 0

\* C7: a document that process_fluid_data returns has as many records as the
\* input has time points.
C7_OneRecordPerTimePoint ==
    output_data \notin {Unset, None} =>
        Len(output_data.time_steps) = Len(navier_stokes_data.time_points)

C7_Witness ==
    /\ output_data \notin {Unset, None}
    /\ Len(navier_stokes_data.time_points) >= 2
    /\ \E t \in Records : StepIsEmpty(t)

\* ---- the order of the stages
ExpectedCall(j) ==
    IF j = 1 THEN Call("validator", 0)
    ELSE IF j = 2 THEN Call("resolver", 0)
    ELSE Call("engine", j - 3)

\* C9: the components run in the order validator, resolver, engine per time
\* step; the resolver runs only after the validator succeeded and the engine
\* only after both did; the document is assembled only after every time step
\* was derived.
C9_StagesInOrder ==
    /\ \A j \in 1..Len(calls) : calls[j] = ExpectedCall(j)
    /\ Len(calls) >= 2 => ValidatorSucceeded
    /\ Len(calls) >= 3 => ValidatorSucceeded /\ ResolverSucceeded
    /\ CASE pc = "Validating" -> calls = <<>>
         [] pc = "ResolvingThermodynamics" -> Len(calls) = 1 /\ ValidatorSucceeded
         [] pc = "DerivingSteps" ->
                /\ ValidatorSucceeded /\ ResolverSucceeded
                /\ Len(calls) = 2 + t_idx
         [] pc \in {"Assembling", "Done"} ->
                /\ ValidatorSucceeded /\ ResolverSucceeded
                /\ Len(calls) = 2 + InputT
                /\ (pc = "Done") = (output_data \notin {Unset, None})
         [] pc = "Aborted" -> output_data = None

\* a run that stopped on a validator failure, having called the validator only
C9_Witness ==
    /\ pc = "Aborted"
    /\ navier_stokes_validated = None
    /\ calls = <<Call("validator", 0)>>

\* ---- the order of the validator's checks
\* the validator's failures in the order the code checks for them
CodeOrder ==
    <<"time_points missing", "time_points empty", "mesh_info missing",
      "nodes_coords missing", "grid_shape missing", "dx missing", "dy missing",
      "dz missing", "velocity_history missing", "pressure_history missing",
      "inconsistent lengths", "velocity_history first empty",
      "pressure_history first empty", "invalid grid_shape", "invalid voxel sizes",
      "nodes mismatch", "nodes_coords columns">>

HasMesh(doc, keys) == Has(doc, "mesh_info") /\ keys \subseteq DOMAIN doc.mesh_info

\* the document has the defect that the message names
Violates(doc, message) ==
    CASE message = "time_points missing" -> ~Has(doc, "time_points")
      [] message = "time_points empty" ->
            Has(doc, "time_points") /\ Len(doc.time_points) = 0
      [] message = "mesh_info missing" -> ~Has(doc, "mesh_info")
      [] message = "nodes_coords missing" ->
            Has(doc, "mesh_info") /\ ~Has(doc.mesh_info, "nodes_coords")
      [] message = "grid_shape missing" ->
            Has(doc, "mesh_info") /\ ~Has(doc.mesh_info, "grid_shape")
      [] message = "dx missing" -> Has(doc, "mesh_info") /\ ~Has(doc.mesh_info, "dx")
      [] message = "dy missing" -> Has(doc, "mesh_info") /\ ~Has(doc.mesh_info, "dy")
      [] message = "dz missing" -> Has(doc, "mesh_info") /\ ~Has(doc.mesh_info, "dz")
      [] message = "velocity_history missing" -> ~Has(doc, "velocity_history")
      [] message = "pressure_history missing" -> ~Has(doc, "pressure_history")
      [] message = "inconsistent lengths" ->
            /\ {"time_points", "velocity_history", "pressure_history"} \subseteq DOMAIN doc
            /\ LengthsDiffer(doc)
      [] message = "velocity_history first empty" ->
            Has(doc, "velocity_history") /\ FirstStepBad(doc.velocity_history)
      [] message = "pressure_history first empty" ->
            Has(doc, "pressure_history") /\ FirstStepBad(doc.pressure_history)
      [] message = "invalid grid_shape" ->
            HasMesh(doc, {"grid_shape"}) /\ GridShapeInvalid(doc.mesh_info.grid_shape)
      [] message = "invalid voxel sizes" ->
            HasMesh(doc, {"dx", "dy", "dz"}) /\ VoxelSizesInvalid(doc.mesh_info)
      [] message = "nodes mismatch" ->
            /\ HasMesh(doc, {"grid_shape", "nodes_coords"})
            /\ ~GridShapeInvalid(doc.mesh_info.grid_shape)
            /\ NodesMismatch(doc.mesh_info)
      [] message = "nodes_coords columns" ->
            /\ HasMesh(doc, {"nodes_coords"})
            /\ Len(doc.mesh_info.nodes_coords) > 0
            /\ Len(doc.mesh_info.nodes_coords[1]) # 3

\* the number, in the spec's list of six checks, of the check a message is of
SpecCheck(message) ==
    CASE message \in {"time_points missing", "time_points empty"} -> 1
      [] message \in {"mesh_info missing", "nodes_coords missing", "grid_shape missing",
                      "dx missing", "dy missing", "dz missing",
                      "invalid grid_shape", "invalid voxel sizes"} -> 2
      [] message \in {"velocity_history missing", "pressure_history missing"} -> 3
      [] message = "inconsistent lengths" -> 4
      [] message \in {"velocity_history first empty", "pressure_history first empty"} -> 5
      [] message \in {"nodes mismatch", "nodes_coords columns"} -> 6

ViolatedRanks(doc) == {r \in 1..Len(CodeOrder) : Violates(doc, CodeOrder[r])}
Lowest(ranks) == CHOOSE r \in ranks : \A q \in ranks : r <= q

\* C10 as stated: the failure reported is that of the lowest-numbered check,
\* of the spec's six, that the document violates.
C10_LowestSpecCheckReported ==
    navier_stokes_validated = None =>
        SpecCheck(printed[1]) =
            Lowest({SpecCheck(CodeOrder[r]) : r \in ViolatedRanks(navier_stokes_data)})

\* C10 amended: the validator stops at the first failure in the order of the
\* code: the presence of the keys, then the equality of the lengths, the first
\* time steps, the grid shape, the voxel sizes and the node coordinates.  The
\* failure reported is the first of these that the document violates, and a
\* document that violates none is accepted.
C10_FirstInCodeOrderReported ==
    navier_stokes_validated # Unset =>
        IF ViolatedRanks(navier_stokes_data) = {}
        THEN navier_stokes_validated # None /\ (pc = "ResolvingThermodynamics" => printed = <<>>)
        ELSE /\ navier_stokes_validated = None
             /\ printed = <<CodeOrder[Lowest(ViolatedRanks(navier_stokes_data))]>>

\* a document with a voxel size that is not positive and with histories whose
\* lengths differ from time_points was rejected for the lengths
C10_Witness ==
    /\ navier_stokes_validated = None
    /\ Violates(navier_stokes_data, "invalid voxel sizes")
    /\ Violates(navier_stokes_data, "inconsistent lengths")
    /\ printed = <<"inconsistent lengths">>

\* ---- what the validator accepts and rejects
Validated == navier_stokes_validated # Unset
HasEveryKey(doc) ==
    /\ {"time_points", "mesh_info", "velocity_history", "pressure_history"} \subseteq DOMAIN doc
    /\ {"nodes_coords", "grid_shape", "dx", "dy", "dz"} \subseteq DOMAIN doc.mesh_info

\* the histories are as long as time_points, there is a time point, and the
\* node coordinates are num_x*num_y*num_z rows of 3 columns
DimensionsAgree(time_points, velocity_history, pressure_history, nodes_coords, num_x, num_y, num_z) ==
    /\ Len(velocity_history) = Len(pressure_history)
    /\ Len(pressure_history) = Len(time_points)
    /\ Len(time_points) >= 1
    /\ NumEq(I(Len(nodes_coords)), PyMul(PyMul(num_x, num_y), num_z))
    /\ \A i \in 1..Len(nodes_coords) : Len(nodes_coords[i]) = 3

\* C11: a dataset the validator returns has histories as long as time_points,
\* at least one time point and num_x*num_y*num_z coordinate rows of 3 columns;
\* a document with every key and a usable grid_shape that violates one of
\* these is rejected, and the pipeline returns no document for it.
C11_DimensionsAgree ==
    /\ ValidatorSucceeded =>
           DimensionsAgree(navier_stokes_validated.time_points,
                           navier_stokes_validated.velocity_history,
                           navier_stokes_validated.pressure_history,
                           navier_stokes_validated.nodes_coords,
                           navier_stokes_validated.num_x,
                           navier_stokes_validated.num_y,
                           navier_stokes_validated.num_z)
    /\ (/\ Validated
        /\ HasEveryKey(navier_stokes_data)
        /\ Len(navier_stokes_data.mesh_info.grid_shape) = 3
        /\ ~DimensionsAgree(navier_stokes_data.time_points,
                            navier_stokes_data.velocity_history,
                            navier_stokes_data.pressure_history,
                            navier_stokes_data.mesh_info.nodes_coords,
                            navier_stokes_data.mesh_info.grid_shape[3],
                            navier_stokes_data.mesh_info.grid_shape[2],
                            navier_stokes_data.mesh_info.grid_shape[1]))
           => /\ navier_stokes_validated = None
              /\ pc = "Aborted"
              /\ output_data = None

\* a document whose only defect is one coordinate row too many was rejected
C11_Witness ==
    /\ pc = "Aborted" /\ output_data = None
    /\ HasEveryKey(navier_stokes_data)
    /\ ~GridShapeInvalid(navier_stokes_data.mesh_info.grid_shape)
    /\ Len(navier_stokes_data.mesh_info.nodes_coords) =
           NodesOf(navier_stokes_data.mesh_info.grid_shape) + 1
    /\ printed = <<"nodes mismatch">>

\* grid_shape is a list of exactly 3 positive integers
ThreePositiveIntegers(grid_shape) ==
    /\ Len(grid_shape) = 3
    /\ \A i \in 1..Len(grid_shape) : IsInt(grid_shape[i]) /\ grid_shape[i].n > 0

\* x is a number and x > 0
IsPositiveNumber(x) == x.t \in {"int", "float", "+inf"} /\ (x.t = "+inf" \/ x.n > 0)

\* C12: the validator rejects every document whose grid_shape is not a list of
\* exactly 3 positive integers, and every document in which dx, dy or dz is
\* not a positive number.
C12_GridShapeAndVoxelSizesChecked ==
    (/\ Validated
     /\ HasEveryKey(navier_stokes_data)
     /\ \/ ~ThreePositiveIntegers(navier_stokes_data.mesh_info.grid_shape)
        \/ ~IsPositiveNumber(navier_stokes_data.mesh_info.dx)
        \/ ~IsPositiveNumber(navier_stokes_data.mesh_info.dy)
        \/ ~IsPositiveNumber(navier_stokes_data.mesh_info.dz))
        => navier_stokes_validated = None

\* the first time step of the history is not a list, or is an empty list
FirstStepUnusable(history) ==
    Len(history) >= 1 /\ (history[1] = NotAList \/ history[1] = List(<<>>))

\* C13: the validator rejects every document in which velocity_history[0] or
\* pressure_history[0] is not a list or is an empty list, whatever the later
\* time steps contain.
C13_FirstStepChecked ==
    (/\ Validated
     /\ HasEveryKey(navier_stokes_data)
     /\ \/ FirstStepUnusable(navier_stokes_data.velocity_history)
        \/ FirstStepUnusable(navier_stokes_data.pressure_history))
        => /\ navier_stokes_validated = None
           /\ pc = "Aborted"

\* a document whose only defect is the empty first step of velocity_history,
\* with a populated later step, was rejected for it
C13_Witness ==
    /\ navier_stokes_validated = None
    /\ HasEveryKey(navier_stokes_data)
    /\ navier_stokes_data.velocity_history[1] = List(<<>>)
    /\ Len(navier_stokes_data.velocity_history) >= 2
    /\ Len(navier_stokes_data.velocity_history[2].v) > 0
    /\ printed = <<"velocity_history first empty">>

\* ---- what the resolver accepts and rejects
Resolved == initial_validated # Unset

\* the model string of the document as written, "" when it is absent
WrittenModel ==
    IF Has(initial_data.fluid_properties, "thermodynamics")
       /\ Has(initial_data.fluid_properties.thermodynamics, "model")
    THEN initial_data.fluid_properties.thermodynamics.model
    ELSE ""

SpellingsOfIdealGas == {"ideal_gas", "IDEAL_GAS", "Ideal_Gas"}
SpellingsOfIncompressible == {"incompressible", "Incompressible"}

DensityIsValid ==
    /\ Has(initial_data, "fluid_properties")
    /\ Has(initial_data.fluid_properties, "density")
    /\ IsPositiveNumber(initial_data.fluid_properties.density)

\* the resolver did not run the engine: the pipeline stopped after two calls
AbortedBeforeAnyStep ==
    /\ pc = "Aborted" /\ output_data = None
    /\ calls = <<Call("validator", 0), Call("resolver", 0)>>

\* C14: on a document with a valid density the resolver takes the model string
\* in any case: a spelling of incompressible resolves to incompressible, a
\* spelling of ideal_gas is never reported as unsupported and resolves to
\* ideal_gas, and any other string, an absent model and an absent
\* thermodynamics block fail with the error that names the model, the pipeline
\* stopping before any time step is derived.
C14_ModelMatchedInAnyCase ==
    (Resolved /\ DensityIsValid) =>
        CASE WrittenModel \in SpellingsOfIncompressible ->
                 ResolverSucceeded /\ initial_validated.thermo_model = "incompressible"
          [] WrittenModel \in SpellingsOfIdealGas ->
                 IF ResolverSucceeded
                 THEN initial_validated.thermo_model = "ideal_gas"
                 ELSE printed # <<"unsupported model " \o WrittenModel>>
                      /\ printed # <<"unsupported model ideal_gas">>
          [] OTHER ->
                 /\ initial_validated = None
                 /\ printed = <<"unsupported model " \o WrittenModel>>
                 /\ AbortedBeforeAnyStep

\* the resolver failed on the model compressible_liquid
C14_Witness ==
    /\ DensityIsValid /\ WrittenModel = "compressible_liquid"
    /\ initial_validated = None
    /\ printed = <<"unsupported model compressible_liquid">>

\* C15: for the model ideal_gas the resolver succeeds only if both constants
\* are present and positive and the mean of pressure_history[0] is > 0, and
\* the constants it returns are those of the document.
C15_IdealGasRequirements ==
    (/\ Resolved /\ DensityIsValid /\ WrittenModel \in SpellingsOfIdealGas
     /\ ResolverSucceeded) =>
        LET thermodynamics == initial_data.fluid_properties.thermodynamics
        IN /\ Has(thermodynamics, "specific_gas_constant_J_per_kgK")
           /\ Has(thermodynamics, "adiabatic_index_gamma")
           /\ IsPositiveNumber(thermodynamics.specific_gas_constant_J_per_kgK)
           /\ IsPositiveNumber(thermodynamics.adiabatic_index_gamma)
           /\ initial_validated.R_specific_gas = thermodynamics.specific_gas_constant_J_per_kgK
           /\ initial_validated.gamma = thermodynamics.adiabatic_index_gamma
           /\ FGreater(Mean(InputPressures(0)), F(0))

\* pressure_history[0] is an empty list and the model is ideal_gas
EmptyFirstPressures ==
    /\ HasEveryKey(navier_stokes_data)
    /\ Len(navier_stokes_data.pressure_history) >= 1
    /\ navier_stokes_data.pressure_history[1] = List(<<>>)
    /\ DensityIsValid /\ WrittenModel \in SpellingsOfIdealGas

\* C16 as stated: with an empty pressure_history[0] and the model ideal_gas
\* the run fails in the resolver, on the pressure history it cannot compute
\* the reference constant from, and no time step is processed.
C16_ResolverFailsOnEmptyFirstPressures ==
    (EmptyFirstPressures /\ pc \in {"Aborted", "Done"}) =>
        /\ AbortedBeforeAnyStep
        /\ printed = <<"pressure history empty">>

\* C16 amended: with an empty pressure_history[0] the run fails in the
\* validator: the resolver is never called, no time step is processed, and a
\* document with no other defect is reported for the first time point of
\* pressure_history.
C16_ValidatorFailsOnEmptyFirstPressures ==
    (EmptyFirstPressures /\ Validated) =>
        /\ navier_stokes_validated = None
        /\ pc = "Aborted" /\ output_data = None
        /\ calls = <<Call("validator", 0)>>
        /\ printed # <<"pressure history empty">>
        /\ ViolatedRanks(navier_stokes_data) = {13} =>
               printed = <<"pressure_history first empty">>

C16_Witness ==
    /\ EmptyFirstPressures /\ Validated
    /\ ViolatedRanks(navier_stokes_data) = {13}
    /\ calls = <<Call("validator", 0)>>
    /\ printed = <<"pressure_history first empty">>

\* ---- mis-sized time steps
\* time step t has two non-empty arrays, and the number of pressures or the
\* number of velocity rows is not the number of nodes of the grid
StepIsMisSized(t) ==
    /\ Len(InputVelocities(t)) > 0 /\ Len(InputPressures(t)) > 0
    /\ \/ Len(InputPressures(t)) # InputNodes
       \/ Len(InputVelocities(t)) # InputNodes

\* C17: for a time step of two non-empty arrays in which the pressure count
\* or the velocity row count differs from num_x*num_y*num_z, the engine
\* returns None and no record.
C17_MisSizedStepIsFatal ==
    \A j \in 1..Len(calls) :
        (calls[j].component = "engine" /\ StepIsMisSized(calls[j].t)) =>
            StepData(calls[j].t) = None

\* C18: a document that process_fluid_data returns has at least one record.
C18_NeverAnEmptyDocument ==
    output_data \notin {Unset, None} => Len(output_data.time_steps) >= 1

\* a document of a single record was returned
C18_Witness ==
    /\ output_data \notin {Unset, None}
    /\ Len(navier_stokes_data.time_points) = 1
    /\ Len(output_data.time_steps) = 1

\* C19: in a returned document grid_info.dimensions is [num_x, num_y, num_z],
\* the input grid_shape reversed, voxel_size is [dx, dy, dz], origin is the
\* first node coordinate and the metadata carries the two source names.
C19_GridInfoAndMetadata ==
    Returned =>
        LET mesh_info == navier_stokes_data.mesh_info
        IN /\ output_data.grid_info.dimensions =
                  <<mesh_info.grid_shape[3], mesh_info.grid_shape[2], mesh_info.grid_shape[1]>>
           /\ output_data.grid_info.voxel_size = <<mesh_info.dx, mesh_info.dy, mesh_info.dz>>
           /\ Len(output_data.grid_info.origin) = 3
           /\ \A j \in 1..3 :
                  NumEq(output_data.grid_info.origin[j], mesh_info.nodes_coords[1][j])
           /\ output_data.metadata.source_navier_stokes = navier_stokes_filename
           /\ output_data.metadata.source_initial_data = initial_data_filename

\* a returned document on a grid with num_z # num_x
C19_Witness ==
    /\ Returned
    /\ navier_stokes_data.mesh_info.grid_shape[1] # navier_stokes_data.mesh_info.grid_shape[3]
    /\ output_data.grid_info.dimensions[1] = navier_stokes_data.mesh_info.grid_shape[3]

\* ---- two runs on the same documents
BothCallsReturned == first_output # Unset /\ pc \in {"Done", "Aborted"}

DensityOfNode(t, i) ==
    IF initial_validated.thermo_model = "ideal_gas"
    THEN IdealGasDensity(InputPressures(t)[i], initial_validated.initial_C,
                         initial_validated.gamma)
    ELSE FullLike(NpArray(InputPressures(t)).dtype, initial_validated.initial_density)

TemperatureOfNode(t, i) ==
    IF initial_validated.thermo_model = "ideal_gas"
    THEN IdealGasTemperature(InputPressures(t)[i], DensityOfNode(t, i),
                             initial_validated.R_specific_gas)
    ELSE ZerosLike(NpArray(InputPressures(t)).dtype)

\* C22: in every record that is not degenerate, velocity_data[i] is the input
\* velocity_history[t][i] and density_data[i], temperature_data[i] are the
\* values computed from pressure_history[t][i], for every node index i: the
\* node order of the input is kept.
C22_NodeOrderKept ==
    Returned =>
        \A t \in Records :
            ~IsDegenerate(Record(t)) =>
                /\ Len(Record(t).velocity_data) = Len(InputVelocities(t))
                /\ \A i \in 1..Len(Record(t).velocity_data) :
                       Record(t).velocity_data[i] = InputVelocities(t)[i]
                /\ Len(Record(t).density_data) = Len(InputPressures(t))
                /\ \A i \in 1..Len(Record(t).density_data) :
                       /\ Record(t).density_data[i] = DensityOfNode(t, i)
                       /\ Record(t).temperature_data[i] = TemperatureOfNode(t, i)

\* the constants the resolver gives when it is shown the first time step only
ConstantsOfFirstStep ==
    validate_initial_data(initial_data,
                          SubSeq(navier_stokes_data.pressure_history, 1, 1))

\* the engine's record of time step t under given constants
RecordUnder(constants, t) ==
    calculate_fluid_properties_at_timestep(
        t, navier_stokes_data.time_points[t + 1],
        navier_stokes_data.velocity_history, navier_stokes_data.pressure_history,
        navier_stokes_data.mesh_info.grid_shape[3],
        navier_stokes_data.mesh_info.grid_shape[2],
        navier_stokes_data.mesh_info.grid_shape[1],
        constants.thermo_model, constants.initial_density,
        constants.R_specific_gas, constants.gamma, constants.initial_C)

ResolverCalls == {j \in 1..Len(calls) : calls[j].component = "resolver"}
EngineCalls == {j \in 1..Len(calls) : calls[j].component = "engine"}

\* C23: the resolver is called at most once in a run and before every call
\* of the engine; its constants are those of pressure_history[0] and the
\* initial-conditions document alone, whatever the later time steps hold, and
\* every record of the run is the engine's record under these same constants.
C23_ConstantsResolvedOnce ==
    /\ Cardinality(ResolverCalls) <= 1
    /\ \A j \in EngineCalls : \E k \in ResolverCalls : k < j
    /\ (ResolverCalls # {} /\ initial_validated # None) =>
           /\ initial_validated = ConstantsOfFirstStep
           /\ \A k \in 1..Len(time_steps_data) :
                  time_steps_data[k] = RecordUnder(ConstantsOfFirstStep, k - 1)

\* a returned ideal-gas document of two full steps whose mean pressures differ
C23_Witness ==
    /\ Returned
    /\ InputModel = "ideal_gas"
    /\ Len(output_data.time_steps) >= 2
    /\ StepIsFull(0) /\ StepIsFull(1)
    /\ IsFinite(ReferenceConstant)
    /\ IsFinite(Mean(InputPressures(1)))
    /\ ~NumEq(Mean(InputPressures(0)), Mean(InputPressures(1)))

\* the records the loop of process_fluid_data has accumulated when it has run
\* from time step t to the end, None when a step was fatal
RECURSIVE SequentialLoop(_, _)
SequentialLoop(t, steps) ==
    IF t >= Len(navier_stokes_validated.time_points) THEN steps
    ELSE IF StepIsFatal(StepData(t), t, navier_stokes_validated.time_points) THEN None
    ELSE SequentialLoop(t + 1, Accumulate(steps, StepData(t)))

\* a history in which only time step t is left
OnlyStep(history, t) ==
    [k \in 1..Len(history) |-> IF k = t + 1 THEN history[k] ELSE List(<<>>)]

\* the engine's result for time step t when it is shown no other time step
StepDataAlone(t) ==
    calculate_fluid_properties_at_timestep(
        t, navier_stokes_data.time_points[t + 1],
        OnlyStep(navier_stokes_data.velocity_history, t),
        OnlyStep(navier_stokes_data.pressure_history, t),
        navier_stokes_validated.num_x, navier_stokes_validated.num_y,
        navier_stokes_validated.num_z,
        initial_validated.thermo_model, initial_validated.initial_density,
        initial_validated.R_specific_gas, initial_validated.gamma,
        initial_validated.initial_C)

\* C24: with the steps derived in any order, the result of a step is the
\* engine's result on that step's own time point, velocities and pressures;
\* once collected by index the records are the ones the sequential loop
\* accumulates, and the run fails exactly when some step is fatal, which is
\* exactly when the sequential loop fails.
C24_AnyOrderSameDocument ==
    /\ pc = "DerivingSteps" =>
           \A k \in DOMAIN time_steps_data : time_steps_data[k] = StepDataAlone(k - 1)
    /\ pc \in {"Assembling", "Done"} =>
           /\ time_steps_data = SequentialLoop(0, <<>>)
           /\ \A t \in 0..(InputT - 1) : StepData(t) # None
    /\ Returned => output_data.time_steps = SequentialLoop(0, <<>>)
    /\ (pc = "Aborted" /\ EngineCalls # {}) =>
           /\ SequentialLoop(0, <<>>) = None
           /\ \E t \in 0..(InputT - 1) : StepData(t) = None

\* a document of two different records was returned after time step 1 was
\* derived before time step 0
C24_Witness ==
    /\ Returned
    /\ Len(output_data.time_steps) = 2
    /\ output_data.time_steps[1].density_data # output_data.time_steps[2].density_data
    /\ calls[3] = Call("engine", 1)
    /\ calls[4] = Call("engine", 0)

\* C25: in a returned document the record at position i has frame i and the
\* time time_points[i], for every i below len(time_points): one record per
\* time point, in the order of the time points.
C25_FramesContiguous ==
    Returned =>
        /\ Len(output_data.time_steps) = InputT
        /\ \A i \in 0..(InputT - 1) :
               /\ Record(i).frame = i
               /\ Record(i).time = ToFloat(navier_stokes_data.time_points[i + 1])

\* a returned document of MaxT records, a degenerate one after the first
C25_Witness ==
    /\ Returned
    /\ InputT = MaxT
    /\ \E i \in 1..(InputT - 1) : IsDegenerate(Record(i))
    /\ ~IsDegenerate(Record(0))

\* the engine's guards on the constants of the ideal gas model
ConstantIsInvalid(constant) == constant = None \/ NumEq(constant, F(0))

\* C26: what the resolver returns has the model tag "ideal_gas" or
\* "incompressible", and for "ideal_gas" R, gamma and referenceConstant are
\* not None and greater than 0; so no engine call of the pipeline finds its
\* time step missing, a constant invalid or the model unknown.
C26_ResolverMeetsEnginePreconditions ==
    initial_validated \notin {Unset, None} =>
        /\ initial_validated.thermo_model \in {"ideal_gas", "incompressible"}
        /\ initial_validated.thermo_model = "ideal_gas" =>
               /\ initial_validated.R_specific_gas # None
               /\ FGreater(initial_validated.R_specific_gas, F(0))
               /\ initial_validated.gamma # None
               /\ FGreater(initial_validated.gamma, F(0))
               /\ initial_validated.initial_C # None
               /\ FGreater(initial_validated.initial_C, F(0))
        /\ \A j \in EngineCalls :
               /\ calls[j].t < Len(navier_stokes_validated.velocity_history)
               /\ calls[j].t < Len(navier_stokes_validated.pressure_history)
               /\ initial_validated.thermo_model = "ideal_gas" =>
                      /\ ~ConstantIsInvalid(initial_validated.initial_C)
                      /\ ~ConstantIsInvalid(initial_validated.gamma)
                      /\ ~ConstantIsInvalid(initial_validated.R_specific_gas)

\* C27: in a returned document the record of time step 0 is not the
\* degenerate one: its density_data, velocity_data and temperature_data are
\* not empty, under either model.
C27_FirstRecordNotDegenerate ==
    Returned =>
        /\ Record(0).density_data # <<>>
        /\ Record(0).velocity_data # <<>>
        /\ Record(0).temperature_data # <<>>

\* the values of a resolution_runs_array
ValuesOf(advice) ==
    IF advice \in {NoFile, Raised} THEN {}
    ELSE {advice.resolution_runs_array[i] : i \in 1..Len(advice.resolution_runs_array)}

\* every value that resolution_runs_array has held
SweepValues ==
    ValuesOf(advice_at_start) \cup UNION {ValuesOf(runs[j].advice) : j \in 1..Len(runs)}

\* the runs of resolution_sweep that completed successfully
SuccessfulSweeps ==
    {j \in 1..Len(runs) : runs[j].script = "resolution_sweep" /\ runs[j].exit_code = 0}

\* a successful run writes the current_resolution_run it read as default_resolution
WrittenAsDefaultResolution == {runs[j].advice.current_resolution_run : j \in SuccessfulSweeps}

\* flow_data.json has its two blocks and the sweep array can be read or computed
SweepFilesInPlace ==
    /\ flow_data_file # NoFile
    /\ DOMAIN flow_data_file = {"simulation_parameters", "model_properties"}
    /\ advice_at_start # NoFile \/ metadata_file # NoFile

\* C28: once the orchestrator is disabled, with the files of the sweep in
\* place, every value that resolution_runs_array has held, the last one
\* included, has been written to flow_data.json as default_resolution by a
\* run of resolution_sweep that completed successfully.
C28_EveryValueWritten ==
    (orchestrator_config_file = [enabled |-> FALSE] /\ SweepFilesInPlace) =>
        SweepValues \subseteq WrittenAsDefaultResolution

AdvanceCalls == Len(runs)
RunsAtStart == advice_at_start.resolution_runs_array

\* the advice file before call k of advance_resolution
AdviceBefore(k) == IF k = 1 THEN advice_at_start ELSE runs[k - 1].advice

\* C29: from an advice file of n >= 1 entries, after k <= n-1 calls of
\* advance_resolution the array is the initial one without its first k
\* entries, current_resolution_run is its head and the orchestrator is not
\* disabled; the array is never empty; call n leaves the advice file as it
\* was and writes {"enabled": false}; no call fails.
C29_AdvanceTerminatesSweep ==
    LET n == Len(RunsAtStart)
        k == AdvanceCalls
    IN /\ Len(advice_file.resolution_runs_array) >= 1
       /\ \A j \in 1..k : runs[j].exit_code = 0
       /\ k <= n - 1 =>
              /\ advice_file.resolution_runs_array = SubSeq(RunsAtStart, k + 1, n)
              /\ k >= 1 => advice_file.current_resolution_run =
                               advice_file.resolution_runs_array[1]
              /\ orchestrator_config_file # [enabled |-> FALSE]
       /\ k >= n =>
              /\ runs[n].advice = AdviceBefore(n)
              /\ advice_file = AdviceBefore(n)
              /\ orchestrator_config_file = [enabled |-> FALSE]

\* the call that disables the orchestrator has been made on an array that
\* started with MaxRuns entries, not all the same
C29_Witness ==
    /\ Len(RunsAtStart) = MaxRuns
    /\ AdvanceCalls = MaxRuns
    /\ RunsAtStart[1] # RunsAtStart[2]
    /\ orchestrator_config_file = [enabled |-> FALSE]

\* delete_files_except_step_and_flow returned and its log holds no failure
CompletedWithoutError ==
    /\ dropbox_pc = "returned"
    /\ \A j \in 1..Len(log_file) :
           log_file[j].event \notin {"Failed to delete file", "Error during deletion"}

DeletedPaths ==
    {log_file[j].path : j \in {k \in 1..Len(log_file) :
                                  log_file[k].event = "Deleted file from Dropbox"}}

\* C30: after delete_files_except_step_and_flow has completed without
\* reporting an error, every file left in the folder has a name that ends in
\* ".step" or is flow_data.json, geometry_resolution_advice.json or
\* navier_stokes_runs.zip, and no file of such a name was deleted, however
\* many pages the listing of the folder has.
C30_ExactlyTheKeptFilesRemain ==
    CompletedWithoutError =>
        /\ \A entry \in dropbox_folder :
               entry.kind = "FileMetadata" => IsKept(entry.name)
        /\ \A i \in 1..Len(Catalogue) :
               IsKept(Catalogue[i].name) => PathLower(Catalogue[i].name) \notin DeletedPaths

====
